---- MODULE Spec2Model ----
(***************************************************************************)
(* Model of the map server (src/unnamed/part_000): the credential cache    *)
(* and tile proxy, the POI cache and proxy, the chat orchestrator and the  *)
(* statistics merge service; and of the POI layer of the map page          *)
(* (src/unnamed/part_002).  Every handler is an async function of a        *)
(* single-threaded runtime: the code between two awaits is one atomic      *)
(* step, and an upstream call in flight is a position of the handler.      *)
(***************************************************************************)
EXTENDS Integers, Sequences, FiniteSets, TLC

VARIABLES
  now,          \* Date.now(), in milliseconds
  cachedToken,  \* part_000:24
  tokenExpiry,  \* part_000:25
  tpc,          \* position of each /api/wmts request
  tTok,         \* the handler's local token / newToken
  tFresh,       \* whether the request's first getToken() was served from the cache
  tExch,        \* outcomes of the credentials exchanges the request awaited
  tUp,          \* upstream tile responses the request received
  tResp,        \* the response the request sent
  poiCache,     \* part_000:112, a Map: cache key -> {time, data}
  ppc,          \* position of each /api/pois request
  pReq,         \* its query: category and bbox
  pCalls,       \* Overpass calls the request has made
  pResp,        \* the response the request sent
  cpc,          \* position of the /api/chat request
  cPlaces,      \* places parsed from the model reply (part_000:235)
  cText,        \* the reply without its places block (part_000:240)
  cGeo,         \* per place: the geocoder's answer, or Pending
  cCorrected,   \* per place: what its map callback returned (part_000:245-263)
  cOrder,       \* the places' indices, in the order their lookups completed
  cCalls,       \* network calls made: to the model and to the geocoder
  cResp,        \* the response the request sent
  scbCache,     \* part_000:28 : {data: {nameToKod, kodToValue} | null, ts}
  geoCache,     \* part_000:29 : {data: GeoJSON | null, ts}
  spc,          \* position of each /api/kommuner-sysselsattning request
  sScb,         \* the handler's nameToKod and kodToValue (part_000:278)
  sGeo,         \* the handler's gadmGeo (part_000:337)
  sCalls,       \* upstream calls the request has made
  sResp,        \* the response the request sent
  mw,           \* per request to the server: what the CORS middleware did with it
  activeCategoryRef,  \* part_002:107 : the active POI category, or null
  loadingPois,        \* part_002:106
  poiSource,          \* part_002:90 : what the POI layer shows
  poiDebounceRef,     \* part_002:108 : whether the moveend timer is pending
  extent,             \* the extent of the map view
  fetches             \* the fetchPois calls made, in the order they were issued

tileVars == <<cachedToken, tokenExpiry, tpc, tTok, tFresh, tExch, tUp, tResp>>
poiVars == <<poiCache, ppc, pReq, pCalls, pResp>>
chatVars == <<cpc, cPlaces, cText, cGeo, cCorrected, cOrder, cCalls, cResp>>
statVars == <<scbCache, geoCache, spc, sScb, sGeo, sCalls, sResp>>
corsVars == <<mw>>
uiVars == <<activeCategoryRef, loadingPois, poiSource, poiDebounceRef, extent, fetches>>
vars == <<now, tileVars, poiVars, chatVars, statVars, corsVars, uiVars>>

\* what the tile handler and the clock of the tile model leave alone
notTile == <<poiVars, chatVars, statVars, corsVars, uiVars>>
\* what the POI handler leaves alone
notPoi == <<tileVars, chatVars, statVars, corsVars, uiVars>>
\* what the chat handler leaves alone
notChat == <<now, tileVars, poiVars, statVars, corsVars, uiVars>>
\* what the statistics handler leaves alone
notStat == <<tileVars, poiVars, chatVars, corsVars, uiVars>>
\* what the map page leaves alone
notUi == <<now, tileVars, poiVars, chatVars, statVars, corsVars>>

----------------------------------------------------------------------------
(* Bounds *)
NTileReq == 2          \* tile requests that may overlap
MaxTicks == 2          \* clock steps of the tile model
TickMs == 60 * 1000    \* one clock step (one minute)

NPoiReq == 2           \* POI requests that may overlap
MaxPoiTicks == 3       \* clock steps of the POI model

MaxFetches == 3        \* fetchPois calls of the map page

NStatReq == 2          \* statistics requests that may overlap
MaxStatSteps == 2      \* clock steps of the statistics model

TileReqs == 1..NTileReq
StatReqs == 1..NStatReq
PoiReqs == 1..NPoiReq

----------------------------------------------------------------------------
(* JavaScript values *)
Null == "null"
Undefined == "undefined"
\* NaN, as a number no time in milliseconds equals (times are multiples of 1000)
NaN == -1

\* truthiness of a token value: null and undefined are falsy
Truthy(v) == v \notin {Null, Undefined}

\* a < b on numbers, false when either side is NaN
Lt(a, b) == IF a = NaN \/ b = NaN THEN FALSE ELSE a < b

----------------------------------------------------------------------------
(* Credential cache: getToken, part_000:36-54 *)

TOKEN_MARGIN_S == 300

\* lifetimes (expires_in, seconds) the token endpoint may grant
Lifetimes == {300, 420}

\* what the token endpoint may answer: "ok", a token and its lifetime;
\* "rejectedJson", a non-success status with a JSON error body (no access_token,
\* no expires_in); "throws", no answer (fetch rejects) or a body that is not JSON
\* (res.json() rejects)
ExchangeOutcomes == {"ok", "rejectedJson", "throws"}

\* part_000:37 : the cache test of getToken() on token tok with expiry exp
TokenFreshLe(tok, exp) == Truthy(tok) /\ ~Lt(exp, now)
TokenFresh(tok, exp) == Truthy(tok) /\ Lt(now, exp)

\* data.access_token / data.expires_in of the parsed body, part_000:49-52
\* (the token endpoint hands out a new token, id, with every exchange)
AccessToken(kind, id) == IF kind = "ok" THEN id ELSE Undefined
ExpiresIn(kind, life) == IF kind = "ok" THEN life ELSE NaN
ExpiryOfNoMargin(expiresIn) ==
  IF expiresIn = NaN THEN NaN ELSE now + expiresIn * 1000
ExpiryOf(expiresIn) ==
  IF expiresIn = NaN THEN NaN ELSE now + (expiresIn - TOKEN_MARGIN_S) * 1000

NoResp == [status |-> 0, body |-> "", cacheControl |-> ""]
FailBody == "WMTS request failed"
CACHE_24H == "public, max-age=86400"

\* the catch block of the tile handler, part_000:97-99; cc is the Cache-Control
\* header the handler had set before the exception
TileCatch(r, cc) ==
  /\ tTok' = [tTok EXCEPT ![r] = Null]
  /\ tpc' = [tpc EXCEPT ![r] = "done"]
  /\ tResp' = [tResp EXCEPT ![r] =
                 [status |-> 500, body |-> "error", cacheControl |-> cc]]

\* part_000:59 : the handler starts and calls getToken()
TileStart(r) ==
  /\ tpc[r] = "idle"
  /\ IF TokenFresh(cachedToken, tokenExpiry)
       THEN /\ tTok' = [tTok EXCEPT ![r] = cachedToken]
            /\ tFresh' = [tFresh EXCEPT ![r] = TRUE]
            /\ tpc' = [tpc EXCEPT ![r] = "tile1"]
       ELSE /\ tpc' = [tpc EXCEPT ![r] = "token1"]
            /\ UNCHANGED <<tTok, tFresh>>
  /\ UNCHANGED <<now, cachedToken, tokenExpiry, tExch, tUp, tResp>>
  /\ UNCHANGED notTile

\* the token handed out by the exchange request r is waiting for
TokenId(r) == "tok" \o ToString(r) \o (IF tpc[r] = "token1" THEN "a" ELSE "b")

\* part_000:40-53 : the exchange awaited by getToken() completes
TokenDone(r, kind, life) ==
  /\ tpc[r] \in {"token1", "token2"}
  /\ tExch' = [tExch EXCEPT ![r] = Append(@, kind)]
  /\ IF kind = "throws"
       THEN \* getToken rejects, the handler catches
            /\ TileCatch(r, "")
            /\ UNCHANGED <<cachedToken, tokenExpiry>>
       ELSE /\ cachedToken' = AccessToken(kind, TokenId(r))
            /\ tokenExpiry' = ExpiryOf(ExpiresIn(kind, life))
            /\ tTok' = [tTok EXCEPT ![r] = cachedToken']
            /\ tpc' = [tpc EXCEPT ![r] = IF tpc[r] = "token1" THEN "tile1" ELSE "tile2"]
            /\ UNCHANGED tResp
  /\ UNCHANGED <<now, tFresh, tUp>>
  /\ UNCHANGED notTile

\* what the tile server may answer: nothing (status 0: the fetch rejects), or a
\* status; bodyOk is whether the body could be read to its end
TileOutcomes ==
  {[status |-> 0, bodyOk |-> FALSE]}
    \cup [status : {200}, bodyOk : BOOLEAN]
    \cup [status : {401, 503}, bodyOk : {TRUE}]

\* Response.ok
Ok(status) == status >= 200 /\ status <= 299

\* part_000:69 : wmtsRes.status === 401
AnyFailure(status) == ~Ok(status)
UnauthorizedOrUnavailable(status) == status \in {401, 503}
Unauthorized(status) == status = 401

\* part_000:83 and 95 : the body sent is the body of the n-th upstream response
TileBodyFirst(n) == "tile1"
TileBody(n) == IF n = 1 THEN "tile1" ELSE "tile2"

\* part_000:76-84 and 87-96 : answer from upstream response o, the n-th fetch
TileAnswer(r, o, n) ==
  IF ~Ok(o.status)
    THEN /\ tpc' = [tpc EXCEPT ![r] = "done"]
         /\ tTok' = [tTok EXCEPT ![r] = Null]
         /\ tResp' = [tResp EXCEPT ![r] =
                        [status |-> o.status, body |-> FailBody, cacheControl |-> ""]]
    ELSE IF o.bodyOk
      THEN /\ tpc' = [tpc EXCEPT ![r] = "done"]
           /\ tTok' = [tTok EXCEPT ![r] = Null]
           /\ tResp' = [tResp EXCEPT ![r] =
                          [status |-> 200,
                           body |-> TileBody(n),
                           cacheControl |-> CACHE_24H]]
      ELSE \* arrayBuffer() throws after the headers were set
           TileCatch(r, CACHE_24H)

\* part_000:64-72 and 87-96 : the first tile fetch completes
Tile1Done(r, o) ==
  /\ tpc[r] = "tile1"
  /\ tUp' = [tUp EXCEPT ![r] = Append(@, o)]
  /\ IF o.status = 0
       THEN /\ TileCatch(r, "")
            /\ UNCHANGED <<cachedToken, tokenExpiry>>
       ELSE IF Unauthorized(o.status)
         THEN \* invalidate, then getToken() again
              /\ cachedToken' = Null
              /\ tokenExpiry' = 0
              /\ IF TokenFresh(Null, 0)
                   THEN /\ tTok' = [tTok EXCEPT ![r] = Null]
                        /\ tpc' = [tpc EXCEPT ![r] = "tile2"]
                   ELSE /\ tpc' = [tpc EXCEPT ![r] = "token2"]
                        /\ UNCHANGED tTok
              /\ UNCHANGED tResp
         ELSE /\ TileAnswer(r, o, 1)
              /\ UNCHANGED <<cachedToken, tokenExpiry>>
  /\ UNCHANGED <<now, tFresh, tExch>>
  /\ UNCHANGED notTile

\* part_000:73-84 : the retry completes
Tile2Done(r, o) ==
  /\ tpc[r] = "tile2"
  /\ tUp' = [tUp EXCEPT ![r] = Append(@, o)]
  /\ IF o.status = 0 THEN TileCatch(r, "") ELSE TileAnswer(r, o, 2)
  /\ UNCHANGED <<now, cachedToken, tokenExpiry, tFresh, tExch>>
  /\ UNCHANGED notTile

\* time passes; the only test that reads the clock is now < tokenExpiry, so the
\* clock is stepped only while a cached token has not expired yet
TickTile ==
  /\ now < MaxTicks * TickMs
  /\ Truthy(cachedToken) /\ Lt(now, tokenExpiry)
  /\ now' = now + TickMs
  /\ UNCHANGED tileVars
  /\ UNCHANGED notTile

----------------------------------------------------------------------------
(* POI cache and proxy: app.get('/api/pois'), part_000:102-170 *)

\* part_000:103-109
POI_CATEGORIES ==
  [restauranger    |-> [key |-> "amenity", value |-> "restaurant"],
   kafeer          |-> [key |-> "amenity", value |-> "cafe"],
   parker          |-> [key |-> "leisure", value |-> "park"],
   laddstationer   |-> [key |-> "amenity", value |-> "charging_station"],
   busshallplatser |-> [key |-> "highway", value |-> "bus_stop"]]

\* Object.keys(POI_CATEGORIES): the own keys in insertion order
CategoryKeys ==
  <<"restauranger", "kafeer", "parker", "laddstationer", "busshallplatser">>

\* names every object literal inherits from Object.prototype
ObjectPrototype ==
  {"constructor", "toString", "toLocaleString", "valueOf", "hasOwnProperty",
   "isPrototypeOf", "propertyIsEnumerable", "__proto__"}

\* part_000:118 : POI_CATEGORIES[category], a property read: an own property,
\* else a member inherited from Object.prototype (an object or function, which
\* is truthy and has no key or value of its own), else undefined
CategoryLookup(category) ==
  IF category \in DOMAIN POI_CATEGORIES
    THEN [truthy |-> TRUE, key |-> POI_CATEGORIES[category].key,
          value |-> POI_CATEGORIES[category].value]
    ELSE IF category \in ObjectPrototype
      THEN [truthy |-> TRUE, key |-> Undefined, value |-> Undefined]
      ELSE [truthy |-> FALSE, key |-> Undefined, value |-> Undefined]

\* Array.prototype.join(', ')
RECURSIVE Join(_)
Join(seq) ==
  IF Len(seq) = 0 THEN ""
  ELSE IF Len(seq) = 1 THEN seq[1]
  ELSE seq[1] \o ", " \o Join(Tail(seq))

\* part_000:120 and 123
UnknownCategoryError == "Unknown category. Valid: " \o Join(CategoryKeys)
BboxRequiredError == "bbox required (south,west,north,east)"

POI_CACHE_TTL == 5 * 60 * 1000   \* part_000:113
POI_CACHE_MAX == 200             \* part_000:158
PoiTickMs == 150 * 1000          \* one clock step of the POI model: half the TTL

\* part_000:126
CacheKey(category, bbox) == category \o ":" \o bbox

\* part_000:128 : the test on an entry stored at time t
PoiFreshLe(t) == now - t <= POI_CACHE_TTL
PoiFresh(t) == now - t < POI_CACHE_TTL

\* part_000:161 : the eviction test on an entry stored at time t
PoiStaleAny(t) == now - t >= 0
PoiStale(t) == now - t > POI_CACHE_TTL

\* the query parameters a request may carry; a missing parameter is undefined
CategoryInputs == {"restauranger", "parker", "unknown", "constructor", Undefined}
BboxInputs == {"59,18,60,19", "55,12,56,13", Undefined}

\* an Overpass element; hasTags is whether it has a tags member, tags is the
\* sequence of its <<key, value>> pairs
Element(id, hasTags, tags) ==
  [id |-> id, lat |-> 59000 + id, lon |-> 18000 + id, hasTags |-> hasTags, tags |-> tags]

\* bodies the Overpass API may answer with; hasElements is whether the body
\* has an elements member
OverpassBodies ==
  {[hasElements |-> TRUE,
    elements |-> <<Element(1, TRUE, <<<<"amenity", "restaurant">>, <<"name", "Fika">>>>),
                   Element(2, FALSE, <<>>)>>],
   [hasElements |-> TRUE,
    elements |-> <<Element(3, TRUE, <<<<"leisure", "park">>>>)>>],
   [hasElements |-> FALSE, elements |-> <<>>]}

\* what the Overpass API may answer: a body, a non-success status, or nothing
\* that can be parsed (fetch or json() rejects)
OverpassOutcomes ==
  [kind : {"ok"}, body : OverpassBodies]
    \cup [kind : {"status", "throws"}, body : {[hasElements |-> FALSE, elements |-> <<>>]}]

\* part_000:149 : el.tags?.name || ''
NameOfOrUndefined(el) ==
  IF el.hasTags /\ \E i \in 1..Len(el.tags) : el.tags[i][1] = "name" /\ el.tags[i][2] # ""
    THEN LET i == CHOOSE j \in 1..Len(el.tags) : el.tags[j][1] = "name" IN el.tags[i][2]
    ELSE Undefined
NameOf(el) ==
  IF el.hasTags /\ \E i \in 1..Len(el.tags) : el.tags[i][1] = "name" /\ el.tags[i][2] # ""
    THEN LET i == CHOOSE j \in 1..Len(el.tags) : el.tags[j][1] = "name" IN el.tags[i][2]
    ELSE ""

\* part_000:147-153
ToPoi(el) ==
  [id |-> el.id, name |-> NameOf(el), lat |-> el.lat, lon |-> el.lon,
   tags |-> IF el.hasTags THEN el.tags ELSE <<>>]
ToPois(body) ==
  IF body.hasElements
    THEN [i \in 1..Len(body.elements) |-> ToPoi(body.elements[i])]
    ELSE <<>>

NoPoiResp == [status |-> 0, error |-> "", data |-> <<>>]
NoPoiReq == [category |-> Undefined, bbox |-> Undefined]

PoiRespond(r, status, error, data) ==
  /\ ppc' = [ppc EXCEPT ![r] = "done"]
  /\ pResp' = [pResp EXCEPT ![r] = [status |-> status, error |-> error, data |-> data]]

\* part_000:117-133 : the handler up to its Overpass fetch
PoiStart(r, category, bbox) ==
  /\ ppc[r] = "idle"
  /\ pReq' = [pReq EXCEPT ![r] = [category |-> category, bbox |-> bbox]]
  /\ IF ~CategoryLookup(category).truthy
       THEN PoiRespond(r, 400, UnknownCategoryError, <<>>) /\ UNCHANGED pCalls
       ELSE IF bbox \in {Undefined, ""}
         THEN PoiRespond(r, 400, BboxRequiredError, <<>>) /\ UNCHANGED pCalls
         ELSE LET k == CacheKey(category, bbox) IN
           IF k \in DOMAIN poiCache /\ PoiFresh(poiCache[k].time)
             THEN PoiRespond(r, 200, "", poiCache[k].data) /\ UNCHANGED pCalls
             ELSE /\ ppc' = [ppc EXCEPT ![r] = "overpass"]
                  /\ pCalls' = [pCalls EXCEPT ![r] = @ + 1]
                  /\ UNCHANGED pResp
  /\ UNCHANGED <<now, poiCache>>
  /\ UNCHANGED notPoi

\* part_000:155 : poiCache.set(key, entry)
MapSet(map, key, entry) ==
  [k \in DOMAIN map \cup {key} |-> IF k = key THEN entry ELSE map[k]]

\* part_000:158-163 : the sweep after an insertion
EvictFromMax(map) ==
  IF Cardinality(DOMAIN map) >= POI_CACHE_MAX
    THEN [k \in {j \in DOMAIN map : ~PoiStale(map[j].time)} |-> map[k]]
    ELSE map
Evict(map) ==
  IF Cardinality(DOMAIN map) > POI_CACHE_MAX
    THEN [k \in {j \in DOMAIN map : ~PoiStale(map[j].time)} |-> map[k]]
    ELSE map

\* part_000:141-144 and 166-169 : the answer to an Overpass failure, a
\* non-success status ("status") or an exception of fetch or json() ("throws")
OverpassFailureAs500(kind) == [status |-> 500, error |-> "error"]
OverpassFailure(kind) ==
  IF kind = "status"
    THEN [status |-> 502, error |-> "Overpass API error"]
    ELSE [status |-> 500, error |-> "error"]

\* part_000:135-169 : the Overpass fetch completes
PoiDone(r, o) ==
  /\ ppc[r] = "overpass"
  /\ IF o.kind # "ok"
         THEN /\ PoiRespond(r, OverpassFailure(o.kind).status, OverpassFailure(o.kind).error, <<>>)
              /\ UNCHANGED poiCache
         ELSE LET pois == ToPois(o.body)
                  k == CacheKey(pReq[r].category, pReq[r].bbox) IN
              /\ poiCache' = Evict(MapSet(poiCache, k, [time |-> now, data |-> pois]))
              /\ PoiRespond(r, 200, "", pois)
  /\ UNCHANGED <<now, pReq, pCalls>>
  /\ UNCHANGED notPoi

\* time passes; the clock is read only in tests against the entries' times, so
\* it is stepped only while some entry is not yet older than the TTL
TickPoi ==
  /\ now < MaxPoiTicks * PoiTickMs
  /\ {k \in DOMAIN poiCache : ~PoiStale(poiCache[k].time)} # {}
  /\ now' = now + PoiTickMs
  /\ UNCHANGED poiVars
  /\ UNCHANGED notPoi

----------------------------------------------------------------------------
(* Chat orchestrator: app.post('/api/chat'), part_000:191-272 *)

PLACEHOLDER_KEY == "your-openrouter-api-key-here"

\* req.body.message and process.env.OPENROUTER_API_KEY
MessageInputs == {Undefined, "", "Var ligger Turning Torso?"}
ApiKeyInputs == {Undefined, PLACEHOLDER_KEY, "sk-or-v1-0123"}

\* coordinates are in units of 1/10000 degree
Place(name, lat, lon, description) ==
  [name |-> name, lat |-> lat, lon |-> lon, description |-> description]
Torso == Place("Turning Torso", 550000, 130000, "Skyskrapa")
Kiruna == Place("Kiruna kyrka", 670000, 200000, "Kyrka")
Visby == Place("Visby ringmur", 570000, 180000, "Medeltida mur")

\* the longest place list a reply holds
MaxPlaces == 3

\* JSON.parse of the texts a places block may hold: ok is whether the text parses
JsonParse(text) ==
  CASE text = "[torso]" -> [ok |-> TRUE, value |-> <<Torso>>]
    [] text = "[torso,kiruna]" -> [ok |-> TRUE, value |-> <<Torso, Kiruna>>]
    [] text = "[visby,kiruna,torso]" -> [ok |-> TRUE, value |-> <<Visby, Kiruna, Torso>>]
    [] text = "[]" -> [ok |-> TRUE, value |-> <<>>]
    [] OTHER -> [ok |-> FALSE, value |-> <<>>]

\* the fence lines of a places block (~ stands for a backquote)
FENCE_OPEN == "~~~places"
FENCE_CLOSE == "~~~"

\* replies of the model, as their lines (data.choices[0].message.content); the
\* empty reply stands for a body without content
ReplyInputs ==
  {<<>>,
   <<"Jag vet inte.">>,
   <<"Turning Torso ligger vid havet.", FENCE_OPEN, "[torso]", FENCE_CLOSE>>,
   <<"Platser:", FENCE_OPEN, "[torso,kiruna]", FENCE_CLOSE, "Trevlig resa!">>,
   <<FENCE_OPEN, "[visby,kiruna,torso]", FENCE_CLOSE, "Tre platser.">>,
   <<"Inga platser.", FENCE_OPEN, "[]", FENCE_CLOSE>>,
   <<"Se har:", FENCE_OPEN, "[{\"name\": \"Torso\",", FENCE_CLOSE, "Slut.">>}

\* part_000:232 : content.match(...) on the lines of content: the first opening
\* fence that has a closing fence at least two lines below it, and the first
\* such closing fence; <<0, 0>> when there is no match
PlacesMatch(lines) ==
  LET opens == {i \in 1..Len(lines) :
                  lines[i] = FENCE_OPEN
                    /\ \E j \in (i + 2)..Len(lines) : lines[j] = FENCE_CLOSE}
  IN IF opens = {} THEN <<0, 0>>
     ELSE LET i == CHOOSE x \in opens : \A y \in opens : x <= y
              j == CHOOSE x \in (i + 2)..Len(lines) :
                     /\ lines[x] = FENCE_CLOSE
                     /\ \A y \in (i + 2)..(x - 1) : lines[y] # FENCE_CLOSE
          IN <<i, j>>

\* the captured group: the lines between the fences, joined
RECURSIVE JoinLines(_)
JoinLines(lines) ==
  IF Len(lines) = 0 THEN ""
  ELSE IF Len(lines) = 1 THEN lines[1]
  ELSE lines[1] \o "\n" \o JoinLines(Tail(lines))

\* String.prototype.trim on lines: empty lines at both ends go
RECURSIVE TrimLines(_)
TrimLines(lines) ==
  IF Len(lines) = 0 THEN lines
  ELSE IF lines[1] = "" THEN TrimLines(Tail(lines))
  ELSE IF lines[Len(lines)] = "" THEN TrimLines(SubSeq(lines, 1, Len(lines) - 1))
  ELSE lines

\* part_000:240 : content.replace(..., '').trim()
StripBlock(lines) ==
  LET m == PlacesMatch(lines) IN
  IF m = <<0, 0>> THEN lines
  ELSE TrimLines(SubSeq(lines, 1, m[1] - 1) \o <<"">> \o SubSeq(lines, m[2] + 1, Len(lines)))

\* part_000:230-238 : the places parsed from the reply
ParsePlacesLenient(lines) ==
  LET m == PlacesMatch(lines) IN
  IF m = <<0, 0>> THEN <<>>
  ELSE LET parsed == JsonParse(JoinLines(SubSeq(lines, m[1] + 1, m[2] - 1))) IN
       IF parsed.ok THEN parsed.value ELSE <<Torso>>
ParsePlaces(lines) ==
  LET m == PlacesMatch(lines) IN
  IF m = <<0, 0>> THEN <<>>
  ELSE LET parsed == JsonParse(JoinLines(SubSeq(lines, m[1] + 1, m[2] - 1))) IN
       IF parsed.ok THEN parsed.value ELSE <<>>

\* parseFloat of the coordinate strings the geocoder answers with
ParseFloat(text) ==
  CASE text = "55.6131" -> 556131
    [] text = "12.9763" -> 129763
    [] text = "67.8520" -> 678520
    [] text = "20.2330" -> 202330

Match(lat, lon) == [lat |-> lat, lon |-> lon]

\* what the geocoder may answer for one place: "matches", a JSON array of
\* matches (empty when it found nothing); "error", a JSON body that is no array
\* (nomData.length is undefined); "throws", fetch or json() rejects
GeocoderOutcomes ==
  [kind : {"matches"},
   matches : {<<>>,
              <<Match("55.6131", "12.9763")>>,
              <<Match("67.8520", "20.2330"), Match("55.6131", "12.9763")>>}]
    \cup [kind : {"error", "throws"}, matches : {<<>>}]

Pending == [kind |-> "pending", matches |-> <<>>]

\* part_000:246-262 : what the map callback returns for place under answer o
CorrectedLast(place, o) ==
  IF o.kind = "matches" /\ Len(o.matches) > 0
    THEN [place EXCEPT !.lat = ParseFloat(o.matches[Len(o.matches)].lat),
                       !.lon = ParseFloat(o.matches[Len(o.matches)].lon)]
    ELSE place
CorrectedNoFallback(place, o) ==
  IF o.kind \in {"matches", "error"}
    THEN [place EXCEPT
            !.lat = IF Len(o.matches) > 0 THEN ParseFloat(o.matches[1].lat) ELSE NaN,
            !.lon = IF Len(o.matches) > 0 THEN ParseFloat(o.matches[1].lon) ELSE NaN]
    ELSE place
Corrected(place, o) ==
  IF o.kind = "matches" /\ Len(o.matches) > 0
    THEN [place EXCEPT !.lat = ParseFloat(o.matches[1].lat),
                       !.lon = ParseFloat(o.matches[1].lon)]
    ELSE place

NoChatResp == [status |-> 0, error |-> "", text |-> <<>>, places |-> <<>>]

ChatRespond(status, error, text, places) ==
  /\ cpc' = "done"
  /\ cResp' = [status |-> status, error |-> error, text |-> text, places |-> places]

\* part_000:199 : the test of the API credential
ConfiguredAnyKey(apiKey) == apiKey \notin {Undefined, ""}
Configured(apiKey) == apiKey \notin {Undefined, ""} /\ apiKey # PLACEHOLDER_KEY

\* part_000:193-218 : the handler up to its call of the model
ChatStart(message, apiKey) ==
  /\ cpc = "idle"
  /\ IF message \in {Undefined, ""}
       THEN ChatRespond(400, "message required", <<>>, <<>>) /\ UNCHANGED cCalls
       ELSE IF ~Configured(apiKey)
         THEN /\ ChatRespond(500, "OPENROUTER_API_KEY not configured", <<>>, <<>>)
              /\ UNCHANGED cCalls
         ELSE /\ cpc' = "model"
              /\ cCalls' = [cCalls EXCEPT !.model = @ + 1]
              /\ UNCHANGED cResp
  /\ UNCHANGED <<cPlaces, cText, cGeo, cCorrected, cOrder>>
  /\ UNCHANGED notChat

\* part_000:220-271 : the model answers; kind is "ok", "status" (a non-success
\* status whose body text is read), "statusNoText" (a non-success status when
\* response.text() of line 221 rejects) or "throws" (fetch or json() rejects)
ChatModelDone(kind, reply) ==
  /\ cpc = "model"
  /\ IF kind \in {"throws", "statusNoText"}
       THEN /\ ChatRespond(500, "error", <<>>, <<>>)
            /\ UNCHANGED <<cPlaces, cText, cGeo, cCorrected, cCalls>>
       ELSE IF kind = "status"
         THEN /\ ChatRespond(502, "AI API error", <<>>, <<>>)
              /\ UNCHANGED <<cPlaces, cText, cGeo, cCorrected, cCalls>>
         ELSE LET places == ParsePlaces(reply) IN
              /\ cPlaces' = places
              /\ cText' = StripBlock(reply)
              /\ IF Len(places) > 0
                   THEN \* Promise.all(places.map(...)): one lookup per place
                        /\ cpc' = "geocode"
                        /\ cGeo' = [i \in 1..Len(places) |-> Pending]
                        /\ cCorrected' = places
                        /\ cCalls' = [cCalls EXCEPT !.geocoder = @ + Len(places)]
                        /\ UNCHANGED cResp
                   ELSE /\ ChatRespond(200, "", StripBlock(reply), places)
                        /\ UNCHANGED <<cGeo, cCorrected, cCalls>>
  /\ UNCHANGED cOrder
  /\ UNCHANGED notChat

\* part_000:245 : Promise.all keeps the result of the i-th promise at index i
CollectByArrival(corrected, i, place) ==
  [corrected EXCEPT ![Len(cOrder) + 1] = place]
Collect(corrected, i, place) == [corrected EXCEPT ![i] = place]

\* part_000:245-267 : the lookup of place i completes; the last one to complete
\* resolves Promise.all and the handler answers
GeocodeDone(i, o) ==
  /\ cpc = "geocode"
  /\ i \in DOMAIN cGeo /\ cGeo[i] = Pending
  /\ cGeo' = [cGeo EXCEPT ![i] = o]
  /\ cCorrected' = Collect(cCorrected, i, Corrected(cPlaces[i], o))
  /\ cOrder' = Append(cOrder, i)
  /\ IF \A j \in DOMAIN cGeo : j # i => cGeo[j] # Pending
       THEN ChatRespond(200, "", cText, cCorrected')
       ELSE UNCHANGED <<cpc, cResp>>
  /\ UNCHANGED <<cPlaces, cText, cCalls>>
  /\ UNCHANGED notChat

----------------------------------------------------------------------------
(* Statistics merge service: app.get('/api/kommuner-sysselsattning'),
   part_000:274-384 *)

HOUR == 60 * 60 * 1000
SCB_TTL == 24 * 60 * 60 * 1000        \* part_000:30
GEO_TTL == 7 * 24 * 60 * 60 * 1000    \* part_000:31

\* an optional value: <<>> is null, <<v>> is the value v
None == <<>>
Some(v) == <<v>>

\* the characters of the region codes of the model
Chars(kod) ==
  CASE kod = "00" -> <<"0", "0">>
    [] kod = "12" -> <<"1", "2">>
    [] kod = "1280" -> <<"1", "2", "8", "0">>
    [] kod = "1281" -> <<"1", "2", "8", "1">>
    [] kod = "1299" -> <<"1", "2", "9", "9">>
    [] kod = "2584" -> <<"2", "5", "8", "4">>
    [] kod = "12A" -> <<"1", "2", "A">>

Digits == {"0", "1", "2", "3", "4", "5", "6", "7", "8", "9"}

\* part_000:293 : /^\d{4}$/.test(kod)
AtMostFourChars(kod) == Len(Chars(kod)) <= 4
IsMunicipalityCode(kod) ==
  Len(Chars(kod)) = 4 /\ \A i \in 1..4 : Chars(kod)[i] \in Digits

\* String.prototype.toLowerCase on the names of the model
ToLowerCase(name) ==
  CASE name \in {"Malmo", "malmo", "MALMO"} -> "malmo"
    [] name \in {"Lund", "lund", "LUND"} -> "lund"
    [] name \in {"Kiruna", "kiruna"} -> "kiruna"
    [] name \in {"Gotland", "gotland"} -> "gotland"
    [] name \in {"Riket", "riket"} -> "riket"
    [] name = "" -> ""

\* obj[key] = val on an object kept as the sequence of its <<key, value>>
\* entries in insertion order: an existing key keeps its place
ObjSet(obj, key, val) ==
  IF \E i \in 1..Len(obj) : obj[i][1] = key
    THEN [i \in 1..Len(obj) |-> IF obj[i][1] = key THEN <<key, val>> ELSE obj[i]]
    ELSE Append(obj, <<key, val>>)

\* whether the object has the key
ObjHas(obj, key) == \E i \in 1..Len(obj) : obj[i][1] = key

\* obj[key], Undefined when the object has no such key (the keys of the model
\* are region names; none is the name of a member of Object.prototype)
ObjGet(obj, key) ==
  IF \E i \in 1..Len(obj) : obj[i][1] = key
    THEN obj[CHOOSE i \in 1..Len(obj) : obj[i][1] = key][2]
    ELSE Undefined

\* part_000:290-297 : nameToKod from the Region variable's values and valueTexts
RECURSIVE BuildNameToKod(_, _)
BuildNameToKod(values, texts) ==
  IF Len(values) = 0 THEN <<>>
  ELSE LET n == Len(values)
           rest == BuildNameToKod(SubSeq(values, 1, n - 1), SubSeq(texts, 1, n - 1))
       IN IF IsMunicipalityCode(values[n]) THEN ObjSet(rest, texts[n], values[n]) ELSE rest

\* parseFloat of the value strings of the model, in tenths; NaN for ".."
ParseValue(text) ==
  CASE text = "78.5" -> 785
    [] text = "81.2" -> 812
    [] text = "0.0" -> 0
    [] text = ".." -> NaN

\* part_000:324-329 : kodToValue from the rows <<key[0], values[0]>>
RECURSIVE BuildKodToValue(_)
BuildKodToValue(rows) ==
  IF Len(rows) = 0 THEN <<>>
  ELSE LET n == Len(rows)
           rest == BuildKodToValue(SubSeq(rows, 1, n - 1))
           value == ParseValue(rows[n][2])
       IN IF value # NaN THEN ObjSet(rest, rows[n][1], value) ELSE rest

\* part_000:352-355 : the case-insensitive fallback map
RECURSIVE BuildNameLower(_)
BuildNameLower(nameToKod) ==
  IF Len(nameToKod) = 0 THEN <<>>
  ELSE LET n == Len(nameToKod) IN
       ObjSet(BuildNameLower(SubSeq(nameToKod, 1, n - 1)),
              ToLowerCase(nameToKod[n][1]), nameToKod[n][2])

\* a || b on codes: a when it is a code (a non-empty string), else b
OrElse(a, b) == IF a # Undefined THEN a ELSE b

\* part_000:362
ResolveKodExactOnly(nameToKod, name2) == OrElse(ObjGet(nameToKod, name2), Null)
ResolveKodFallbackFirst(nameToKod, name2) ==
  OrElse(ObjGet(BuildNameLower(nameToKod), ToLowerCase(name2)),
         OrElse(ObjGet(nameToKod, name2), Null))
ResolveKod(nameToKod, name2) ==
  OrElse(ObjGet(nameToKod, name2),
         OrElse(ObjGet(BuildNameLower(nameToKod), ToLowerCase(name2)), Null))

\* part_000:363 : kod ? (kodToValue[kod] ?? null) : null
ValueOfTruthy(kodToValue, kod) ==
  IF kod = Null THEN None
  ELSE IF ObjHas(kodToValue, kod) /\ ObjGet(kodToValue, kod) # 0
    THEN Some(ObjGet(kodToValue, kod))
  ELSE None
ValueOf(kodToValue, kod) ==
  IF kod = Null THEN None
  ELSE IF ObjHas(kodToValue, kod) THEN Some(ObjGet(kodToValue, kod))
  ELSE None

\* a boundary feature: properties.ENGTYPE_2, properties.NAME_2 (hasName is
\* whether it is there) and the geometry
Feature(engtype, hasName, name, geometry) ==
  [ENGTYPE_2 |-> engtype, hasName |-> hasName, NAME_2 |-> name, geometry |-> geometry]

\* part_000:360-372 : the map callback
MergeFeature(f, scb) ==
  LET name2 == IF f.hasName THEN f.NAME_2 ELSE ""
      kod == ResolveKod(scb.nameToKod, name2)
  IN [ENGTYPE_2 |-> f.ENGTYPE_2, hasName |-> f.hasName, NAME_2 |-> f.NAME_2,
      geometry |-> f.geometry,
      kod |-> kod, sysselsattning |-> ValueOf(scb.kodToValue, kod)]

IsAnyLevel(f) == TRUE
IsMunicipality(f) == f.ENGTYPE_2 = "Municipality"

\* part_000:358-373
RECURSIVE MergeFeatures(_, _)
MergeFeatures(features, scb) ==
  IF Len(features) = 0 THEN <<>>
  ELSE LET rest == MergeFeatures(Tail(features), scb) IN
       IF IsMunicipality(Head(features))
         THEN <<MergeFeature(Head(features), scb)>> \o rest
         ELSE rest

\* part_000:356 and 361 : the unmatched list after the merge, the names pushed
\* by the callback in the order of the features
RECURSIVE Unmatched(_, _)
Unmatched(features, scb) ==
  IF Len(features) = 0 THEN <<>>
  ELSE LET f == Head(features)
           name2 == IF f.hasName THEN f.NAME_2 ELSE ""
           rest == Unmatched(Tail(features), scb)
       IN IF IsMunicipality(f) /\ ResolveKod(scb.nameToKod, name2) = Null
            THEN <<name2>> \o rest
            ELSE rest

\* part_000:364-371 : what the map callback leaves in the feature it was
\* given: { ...f, properties: { ...f.properties, kod, sysselsattning } } is a
\* new object with a new properties object, the feature itself is not written
FeatureMergedInPlace(f, scb) == MergeFeature(f, scb)
FeatureAfterMerge(f, scb) == f

\* part_000:357-372 : the boundary body geo (the object the cache holds) once
\* the merge has run over it; a body without features is not touched
GeoAfterMerge(geo, scb) ==
  [geo EXCEPT !.features =
     [i \in 1..Len(geo.features) |->
        IF IsMunicipality(geo.features[i])
          THEN FeatureAfterMerge(geo.features[i], scb)
          ELSE geo.features[i]]]

\* what the statistics API may answer to the metadata request: kind "ok" with
\* the Region variable (hasRegion is whether the metadata has one), "status" (a
\* non-success status) or "throws"
NoMeta == [hasRegion |-> FALSE, values |-> <<>>, valueTexts |-> <<>>]
MetaOutcomes ==
  [kind : {"ok"},
   meta : {[hasRegion |-> TRUE,
            values |-> <<"00", "12", "1280", "1281", "2584">>,
            valueTexts |-> <<"Riket", "Lund", "malmo", "Lund", "Kiruna">>],
           [hasRegion |-> TRUE,
            values |-> <<"1280", "1281", "1299", "12A">>,
            valueTexts |-> <<"Malmo", "Lund", "LUND", "Gotland">>],
           NoMeta}]
    \cup [kind : {"status", "throws"}, meta : {NoMeta}]

\* ... and to the data request: the rows <<key[0], values[0]>>
DataOutcomes ==
  [kind : {"ok"},
   rows : {<<<<"1280", "78.5">>, <<"1281", "..">>, <<"1299", "0.0">>, <<"1281", "81.2">>,
             <<"1280", "..">>>>}]
    \cup [kind : {"status", "throws"}, rows : {<<>>}]

\* what the boundary source may answer: a GeoJSON body (hasFeatures is whether
\* it has a features member), a non-success status, or nothing that parses
NoGeo == [hasFeatures |-> FALSE, features |-> <<>>]
GadmOutcomes ==
  [kind : {"ok"},
   geo : {[hasFeatures |-> TRUE,
           features |-> <<Feature("Municipality", TRUE, "Malmo", 1),
                          Feature("Water body", TRUE, "Lund", 2),
                          Feature("Municipality", TRUE, "LUND", 3),
                          Feature("Municipality", TRUE, "Gotland", 4)>>],
          [hasFeatures |-> TRUE,
           features |-> <<Feature("Municipality", TRUE, "lund", 5),
                          Feature("Municipality", FALSE, "", 6),
                          Feature("Municipality", TRUE, "Kiruna", 7),
                          Feature("Municipality", TRUE, "Lund", 8)>>],
          NoGeo}]
    \cup [kind : {"status", "throws"}, geo : {NoGeo}]

NoScb == [nameToKod |-> <<>>, kodToValue |-> <<>>]
NoStatResp == [status |-> 0, features |-> <<>>]

\* part_000:279 and 338 : the cache tests
ScbFreshInverted == scbCache.has /\ now - scbCache.ts > SCB_TTL
ScbFreshNever == FALSE
ScbFresh == scbCache.has /\ now - scbCache.ts < SCB_TTL
GeoFreshAsScb == geoCache.has /\ now - geoCache.ts < SCB_TTL
GeoFresh == geoCache.has /\ now - geoCache.ts < GEO_TTL

\* part_000:380-383 : the status the catch block answers with, whatever failed
StatFailureStatusAsPoi(kind) == IF kind = "status" THEN 502 ELSE 500
StatFailureStatus(kind) == 500

StatRespond(r, status, features) ==
  /\ spc' = [spc EXCEPT ![r] = "done"]
  /\ sResp' = [sResp EXCEPT ![r] = [status |-> status, features |-> features]]

\* part_000:350-383 : merge and answer; gadmGeo.features.filter throws when the
\* body has no features
MergeAndRespond(r, scb, geo) ==
  IF geo.hasFeatures
    THEN /\ sScb' = [sScb EXCEPT ![r] = scb]
         /\ sGeo' = [sGeo EXCEPT ![r] = geo]
         /\ StatRespond(r, 200, MergeFeatures(geo.features, scb))
    ELSE \* the handler's locals go with the handler
         /\ sScb' = [sScb EXCEPT ![r] = NoScb]
         /\ sGeo' = [sGeo EXCEPT ![r] = NoGeo]
         /\ StatRespond(r, 500, <<>>)

\* part_000:336-348 : the boundary stage, entered with nameToKod/kodToValue scb
GeoStage(r, scb) ==
  IF GeoFresh
    THEN /\ MergeAndRespond(r, scb, geoCache.data)
         /\ geoCache' = [geoCache EXCEPT !.data = GeoAfterMerge(geoCache.data, scb)]
         /\ UNCHANGED sCalls
    ELSE /\ spc' = [spc EXCEPT ![r] = "gadm"]
         /\ sScb' = [sScb EXCEPT ![r] = scb]
         /\ sCalls' = [sCalls EXCEPT ![r] = @ + 1]
         /\ UNCHANGED <<geoCache, sGeo, sResp>>

\* part_000:275-283 : the handler starts
StatStart(r) ==
  /\ spc[r] = "idle"
  /\ IF ScbFresh
       THEN GeoStage(r, scbCache.data)
       ELSE /\ spc' = [spc EXCEPT ![r] = "meta"]
            /\ sCalls' = [sCalls EXCEPT ![r] = @ + 1]
            /\ UNCHANGED <<geoCache, sScb, sGeo, sResp>>
  /\ UNCHANGED <<now, scbCache>>
  /\ UNCHANGED notStat

\* part_000:283-317 : the metadata request completes
MetaDone(r, o) ==
  /\ spc[r] = "meta"
  /\ IF o.kind # "ok" \/ ~o.meta.hasRegion
       THEN /\ StatRespond(r, StatFailureStatus(o.kind), <<>>)
            /\ UNCHANGED <<sScb, sCalls>>
       ELSE /\ spc' = [spc EXCEPT ![r] = "data"]
            /\ sScb' = [sScb EXCEPT ![r] =
                          [nameToKod |-> BuildNameToKod(o.meta.values, o.meta.valueTexts),
                           kodToValue |-> <<>>]]
            /\ sCalls' = [sCalls EXCEPT ![r] = @ + 1]
            /\ UNCHANGED sResp
  /\ UNCHANGED <<now, scbCache, geoCache, sGeo>>
  /\ UNCHANGED notStat

\* part_000:318-348 : the data request completes
DataDone(r, o) ==
  /\ spc[r] = "data"
  /\ IF o.kind # "ok"
       THEN /\ StatRespond(r, StatFailureStatus(o.kind), <<>>)
            /\ sScb' = [sScb EXCEPT ![r] = NoScb]
            /\ UNCHANGED <<scbCache, geoCache, sGeo, sCalls>>
       ELSE LET scb == [nameToKod |-> sScb[r].nameToKod,
                        kodToValue |-> BuildKodToValue(o.rows)] IN
            /\ scbCache' = [has |-> TRUE, data |-> scb, ts |-> now]
            /\ GeoStage(r, scb)
  /\ UNCHANGED now
  /\ UNCHANGED notStat

\* part_000:342-383 : the boundary request completes
GadmDone(r, o) ==
  /\ spc[r] = "gadm"
  /\ IF o.kind # "ok"
       THEN /\ StatRespond(r, StatFailureStatus(o.kind), <<>>)
            /\ sScb' = [sScb EXCEPT ![r] = NoScb]
            /\ UNCHANGED <<geoCache, sGeo>>
       ELSE /\ geoCache' = [has |-> TRUE, data |-> GeoAfterMerge(o.geo, sScb[r]), ts |-> now]
            /\ MergeAndRespond(r, sScb[r], o.geo)
  /\ UNCHANGED <<now, scbCache, sCalls>>
  /\ UNCHANGED notStat

\* the clock steps of the statistics model, in hours, and the times that n
\* steps can reach
StatSteps == {12, 84}
RECURSIVE StatTimes(_)
StatTimes(n) ==
  IF n = 0 THEN {0}
  ELSE StatTimes(n - 1) \cup {t + h * HOUR : t \in StatTimes(n - 1), h \in StatSteps}

\* time passes; the clock is read only in tests against the caches' times, so
\* it is stepped only while a cache is fresh and a request is still to answer
TickStat(hours) ==
  /\ now + hours * HOUR \in StatTimes(MaxStatSteps)
  /\ ScbFresh \/ GeoFresh
  /\ \E r \in StatReqs : spc[r] # "done"
  /\ now' = now + hours * HOUR
  /\ UNCHANGED statVars
  /\ UNCHANGED notStat

----------------------------------------------------------------------------
(* CORS middleware and routing: part_000:9-15, 57, 115, 191, 275, 387-390 *)

\* the requests of the routing model, made one after the other; request k is
\* handled in slot k of its route
CorsReqs == {1, 2}

WMTS == "/api/wmts"
POIS == "/api/pois"
CHAT == "/api/chat"
STAT == "/api/kommuner-sysselsattning"
Routes == {WMTS, POIS, CHAT, STAT, "/index.html"}
Methods == {"GET", "POST", "OPTIONS"}

\* part_000:57, 115, 191, 275 : the route handlers and their methods
RouteMatches(route, method) ==
  \/ route \in {WMTS, POIS, STAT} /\ method = "GET"
  \/ route = CHAT /\ method = "POST"

\* a request the middleware has not seen: stage is "none", then "passed"
\* (next() was called) or "answered" (answered without a route handler);
\* acao is the Access-Control-Allow-Origin header of its response object,
\* sent the number of responses sent on it outside the route handlers
NoMw ==
  [route |-> "", method |-> "", stage |-> "none", acao |-> "", status |-> 0, sent |-> 0]

\* part_000:13 : _req.method === 'OPTIONS'
IsPreflightNever(method) == FALSE
IsPreflight(method) == method = "OPTIONS"

\* part_000:13-14 : the middleware returns after sendStatus(204), and calls
\* next() otherwise
AlwaysNext(method) == "passed"
AfterMiddleware(method) == IF IsPreflight(method) THEN "answered" ELSE "passed"

\* the handler of request k has sent its response
HandlerDone(k) ==
  /\ mw[k].stage = "passed"
  /\ \/ mw[k].route = WMTS /\ tpc[k] = "done"
     \/ mw[k].route = POIS /\ ppc[k] = "done"
     \/ mw[k].route = CHAT /\ cpc = "done"
     \/ mw[k].route = STAT /\ spc[k] = "done"

\* request k has been answered
Answered(k) == mw[k].stage = "answered" \/ HandlerDone(k)

\* part_000:9-15 : request k arrives and goes through the middleware
Cors(k, route, method) ==
  /\ mw[k].stage = "none"
  /\ \A j \in CorsReqs : j < k => Answered(j)
  /\ route = CHAT => cpc = "idle"
  /\ mw' = [mw EXCEPT ![k] =
               [route |-> route, method |-> method,
                stage |-> AfterMiddleware(method),
                acao |-> "*",
                status |-> IF IsPreflight(method) THEN 204 ELSE 0,
                sent |-> IF IsPreflight(method) THEN 1 ELSE 0]]
  /\ UNCHANGED <<now, tileVars, poiVars, chatVars, statVars, uiVars>>

\* next() has handed request k to the handler of route
Routed(k, route) ==
  /\ mw[k].stage = "passed" /\ mw[k].route = route
  /\ RouteMatches(route, mw[k].method)

\* the steps of the route handlers for request k
CorsTile(k) ==
  /\ Routed(k, WMTS)
  /\ \/ TileStart(k)
     \/ \E kind \in ExchangeOutcomes, life \in Lifetimes : TokenDone(k, kind, life)
     \/ \E o \in TileOutcomes : Tile1Done(k, o)
     \/ \E o \in TileOutcomes : Tile2Done(k, o)

CorsPoi(k) ==
  /\ Routed(k, POIS)
  /\ \/ \E category \in CategoryInputs, bbox \in BboxInputs : PoiStart(k, category, bbox)
     \/ \E o \in OverpassOutcomes : PoiDone(k, o)

CorsChat(k) ==
  /\ Routed(k, CHAT)
  /\ \/ \E message \in MessageInputs, apiKey \in ApiKeyInputs : ChatStart(message, apiKey)
     \/ \E kind \in {"ok", "status", "statusNoText", "throws"}, reply \in ReplyInputs :
          ChatModelDone(kind, reply)
     \/ \E i \in 1..MaxPlaces, o \in GeocoderOutcomes : GeocodeDone(i, o)

CorsStat(k) ==
  /\ Routed(k, STAT)
  /\ \/ StatStart(k)
     \/ \E o \in MetaOutcomes : MetaDone(k, o)
     \/ \E o \in DataOutcomes : DataDone(k, o)
     \/ \E o \in GadmOutcomes : GadmDone(k, o)

\* part_000:387-390 : no route handler matches; the static files, the
\* catch-all of GET or the framework answer, found is whether a file is sent
Fallback(k, found) ==
  /\ mw[k].stage = "passed"
  /\ ~RouteMatches(mw[k].route, mw[k].method)
  /\ mw' = [mw EXCEPT ![k].stage = "answered",
                      ![k].status = IF mw[k].method = "GET" /\ found THEN 200 ELSE 404,
                      ![k].sent = @ + 1]
  /\ UNCHANGED <<now, tileVars, poiVars, chatVars, statVars, uiVars>>

----------------------------------------------------------------------------
(* POI layer of the map page: fetchPois, togglePoiCategory and the moveend
   listener, part_002:105-175 and 388-400 *)

\* the categories of the buttons used and the extents the map view may have
UiCategories == {"restauranger", "parker"}
Extents == {1, 2}

\* the POI layer: cleared, or the features made from the answer to the
\* request for a category and the bbox of an extent
Cleared == [category |-> Null, extent |-> 0]
Shown(category, e) == [category |-> category, extent |-> e]

\* what /api/pois may do with a fetch: answer a list ("ok"), or answer a
\* non-success status or nothing that parses ("failed")
FetchOutcomes == {"ok", "failed"}

\* part_002:117-126 : fetchPois(category) up to its await: the bbox of the
\* current extent, setLoadingPois(true), the request
FetchPoisStart(category) ==
  /\ Len(fetches) < MaxFetches
  /\ loadingPois' = TRUE
  /\ fetches' = Append(fetches, [category |-> category, extent |-> extent, state |-> "flight"])

\* part_002:161-175 : togglePoiCategory(categoryId)
TogglePoiCategory(categoryId) ==
  /\ IF activeCategoryRef = categoryId
       THEN /\ activeCategoryRef' = Null
            /\ poiSource' = Cleared
            /\ UNCHANGED <<loadingPois, fetches>>
       ELSE /\ activeCategoryRef' = categoryId
            /\ FetchPoisStart(categoryId)
            /\ UNCHANGED poiSource
  /\ UNCHANGED <<poiDebounceRef, extent>>
  /\ UNCHANGED notUi

\* part_002:388-400 : the view has moved to extent e; with an active category
\* the listener replaces the pending timer by a new one
MoveEnd(e) ==
  /\ e # extent
  /\ extent' = e
  /\ poiDebounceRef' = IF activeCategoryRef # Null THEN TRUE ELSE poiDebounceRef
  /\ UNCHANGED <<activeCategoryRef, loadingPois, poiSource, fetches>>
  /\ UNCHANGED notUi

\* part_002:396-398 : the timer fires
DebounceFire ==
  /\ poiDebounceRef
  /\ poiDebounceRef' = FALSE
  /\ IF activeCategoryRef # Null
       THEN FetchPoisStart(activeCategoryRef)
       ELSE UNCHANGED <<loadingPois, fetches>>
  /\ UNCHANGED <<activeCategoryRef, poiSource, extent>>
  /\ UNCHANGED notUi

\* part_002:126-158 : the request of call i is answered and fetchPois runs on
FetchPoisDone(i, outcome) ==
  /\ i \in DOMAIN fetches /\ fetches[i].state = "flight"
  /\ fetches' = [fetches EXCEPT ![i].state = outcome]
  /\ IF outcome = "failed"
       THEN \* the catch block, then setLoadingPois(false)
            /\ loadingPois' = FALSE
            /\ UNCHANGED poiSource
       ELSE IF activeCategoryRef # fetches[i].category
         THEN \* the return of line 132 leaves fetchPois
              UNCHANGED <<loadingPois, poiSource>>
         ELSE /\ poiSource' = Shown(fetches[i].category, fetches[i].extent)
              /\ loadingPois' = FALSE
  /\ UNCHANGED <<activeCategoryRef, poiDebounceRef, extent>>
  /\ UNCHANGED notUi

\* the state after construction, but for the clock and the POI cache
InitRest ==
  /\ cachedToken = Null
  /\ tokenExpiry = 0
  /\ tpc = [r \in TileReqs |-> "idle"]
  /\ tTok = [r \in TileReqs |-> Null]
  /\ tFresh = [r \in TileReqs |-> FALSE]
  /\ tExch = [r \in TileReqs |-> <<>>]
  /\ tUp = [r \in TileReqs |-> <<>>]
  /\ tResp = [r \in TileReqs |-> NoResp]
  /\ ppc = [r \in PoiReqs |-> "idle"]
  /\ pReq = [r \in PoiReqs |-> NoPoiReq]
  /\ pCalls = [r \in PoiReqs |-> 0]
  /\ pResp = [r \in PoiReqs |-> NoPoiResp]
  /\ cpc = "idle"
  /\ cPlaces = <<>>
  /\ cText = <<>>
  /\ cGeo = <<>>
  /\ cCorrected = <<>>
  /\ cOrder = <<>>
  /\ cCalls = [model |-> 0, geocoder |-> 0]
  /\ cResp = NoChatResp
  /\ scbCache = [has |-> FALSE, data |-> NoScb, ts |-> 0]
  /\ geoCache = [has |-> FALSE, data |-> NoGeo, ts |-> 0]
  /\ spc = [r \in StatReqs |-> "idle"]
  /\ sScb = [r \in StatReqs |-> NoScb]
  /\ sGeo = [r \in StatReqs |-> NoGeo]
  /\ sCalls = [r \in StatReqs |-> 0]
  /\ sResp = [r \in StatReqs |-> NoStatResp]
  /\ mw = [k \in CorsReqs |-> NoMw]
  /\ activeCategoryRef = Null
  /\ loadingPois = FALSE
  /\ poiSource = Cleared
  /\ poiDebounceRef = FALSE
  /\ extent = 1
  /\ fetches = <<>>

Init ==
  /\ now = 0
  /\ poiCache = <<>>
  /\ InitRest

NextTile ==
  \/ \E r \in TileReqs : TileStart(r)
  \/ \E r \in TileReqs, kind \in ExchangeOutcomes, life \in Lifetimes :
       TokenDone(r, kind, life)
  \/ \E r \in TileReqs, o \in TileOutcomes : Tile1Done(r, o)
  \/ \E r \in TileReqs, o \in TileOutcomes : Tile2Done(r, o)
  \/ TickTile

SpecTile == Init /\ [][NextTile]_vars

NextPoi ==
  \/ \E r \in PoiReqs, category \in CategoryInputs, bbox \in BboxInputs :
       PoiStart(r, category, bbox)
  \/ \E r \in PoiReqs, o \in OverpassOutcomes : PoiDone(r, o)
  \/ TickPoi

SpecPoi == Init /\ [][NextPoi]_vars

\* the POI cache after earlier requests for the category parker with PrefillSize
\* distinct bbox values, to which Overpass answered without elements: the first
\* old of them at time 0, the others at PrefillTime (bbox is any string,
\* part_000:117-126)
PrefillSize == POI_CACHE_MAX - 1
PrefillOld == {0, 99}
PrefillTime == 2 * PoiTickMs
PrefillKey(i) == CacheKey("parker", ToString(i))
Prefill(old) ==
  [k \in {PrefillKey(i) : i \in 1..PrefillSize} |->
     [time |-> IF \E i \in 1..old : PrefillKey(i) = k THEN 0 ELSE PrefillTime,
      data |-> <<>>]]

\* the server at PrefillTime, its POI cache one entry short of POI_CACHE_MAX
InitFull ==
  /\ now = PrefillTime
  /\ poiCache \in {Prefill(old) : old \in PrefillOld}
  /\ InitRest

\* the requests made of the server with the nearly full cache: configured
\* categories, with a bbox
FullCategoryInputs == {"restauranger", "parker"}
FullBboxInputs == {"59,18,60,19"}

NextPoiFull ==
  \/ \E r \in PoiReqs, category \in FullCategoryInputs, bbox \in FullBboxInputs :
       PoiStart(r, category, bbox)
  \/ \E r \in PoiReqs, o \in OverpassOutcomes : PoiDone(r, o)
  \/ TickPoi

SpecPoiFull == InitFull /\ [][NextPoiFull]_vars

NextChat ==
  \/ \E message \in MessageInputs, apiKey \in ApiKeyInputs : ChatStart(message, apiKey)
  \/ \E kind \in {"ok", "status", "statusNoText", "throws"}, reply \in ReplyInputs :
       ChatModelDone(kind, reply)
  \/ \E i \in 1..MaxPlaces, o \in GeocoderOutcomes : GeocodeDone(i, o)

SpecChat == Init /\ [][NextChat]_vars

NextStat ==
  \/ \E r \in StatReqs : StatStart(r)
  \/ \E r \in StatReqs, o \in MetaOutcomes : MetaDone(r, o)
  \/ \E r \in StatReqs, o \in DataOutcomes : DataDone(r, o)
  \/ \E r \in StatReqs, o \in GadmOutcomes : GadmDone(r, o)
  \/ \E hours \in StatSteps : TickStat(hours)

SpecStat == Init /\ [][NextStat]_vars

NextCors ==
  \/ \E k \in CorsReqs, route \in Routes, method \in Methods : Cors(k, route, method)
  \/ \E k \in CorsReqs : CorsTile(k)
  \/ \E k \in CorsReqs : CorsPoi(k)
  \/ \E k \in CorsReqs : CorsChat(k)
  \/ \E k \in CorsReqs : CorsStat(k)
  \/ \E k \in CorsReqs, found \in BOOLEAN : Fallback(k, found)

SpecCors == Init /\ [][NextCors]_vars

NextUi ==
  \/ \E categoryId \in UiCategories : TogglePoiCategory(categoryId)
  \/ \E e \in Extents : MoveEnd(e)
  \/ DebounceFire
  \/ \E i \in 1..MaxFetches, outcome \in FetchOutcomes : FetchPoisDone(i, outcome)

SpecUi == Init /\ [][NextUi]_vars

----------------------------------------------------------------------------
(* Claims about the credential cache and the tile proxy *)

\* credentials exchanges started so far: the completed ones and those in flight
TokenCalls ==
  Cardinality({p \in TileReqs \X {1, 2} : p[2] <= Len(tExch[p[1]])})
    + Cardinality({r \in TileReqs : tpc[r] \in {"token1", "token2"}})

\* C1: a getToken() call made while now < tokenExpiry returns the token the
\* cache holds, a token an exchange fetched, without contacting the token
\* endpoint and without changing the cache; a call made when now >= tokenExpiry
\* performs exactly one credentials exchange.
C1_TokenCacheReuse ==
  [][\A r \in TileReqs :
       (tpc[r] = "idle" /\ tpc'[r] # "idle") =>
         IF Lt(now, tokenExpiry)
           THEN /\ Truthy(cachedToken)
                /\ tpc'[r] = "tile1"
                /\ tTok'[r] = cachedToken
                /\ cachedToken' = cachedToken /\ tokenExpiry' = tokenExpiry
                /\ TokenCalls' = TokenCalls
           ELSE /\ tpc'[r] = "token1"
                /\ TokenCalls' = TokenCalls + 1]_vars

\* a request reuses, one clock step later, the token another request fetched
C1_Witness ==
  \E r, q \in TileReqs :
    /\ r # q /\ tExch[q] = <<"ok">> /\ tExch[r] = <<>>
    /\ tFresh[r] /\ tpc[r] = "tile1" /\ now > 0
    /\ tTok[r] = cachedToken /\ tTok[r] = "tok" \o ToString(q) \o "a"

\* C2: a request that started with a fresh cached token and got 401 from its
\* first tile fetch: when the second fetch is answered 200 the response is 200
\* with the body of that second answer, and when it is answered with a failure
\* status (401 among them) the response has that status; in both cases the
\* request performed exactly one credentials exchange.
C2_RetryOn401 ==
  \A r \in TileReqs :
    (tpc[r] = "done" /\ tFresh[r] /\ Len(tUp[r]) = 2 /\ tUp[r][1].status = 401) =>
      /\ Len(tExch[r]) = 1
      /\ (tUp[r][2].status = 200 /\ tUp[r][2].bodyOk) =>
            (tResp[r].status = 200 /\ tResp[r].body = "tile2")
      /\ (tUp[r][2].status # 0 /\ ~Ok(tUp[r][2].status)) =>
            (tResp[r].status = tUp[r][2].status /\ tResp[r].body = FailBody)

C2_Witness ==
  \E r \in TileReqs :
    /\ tpc[r] = "done" /\ tFresh[r] /\ Len(tUp[r]) = 2
    /\ tUp[r][1].status = 401 /\ tUp[r][2].status = 200 /\ tUp[r][2].bodyOk
    /\ tResp[r].status = 200

\* C9: a request whose latest credentials exchange was rejected by the token
\* endpoint has failed: it is done with a failure status, and has not gone on
\* to fetch a tile with what getToken() returned.
C9_ExchangeFailureSurfaced ==
  \A r \in TileReqs :
    (tExch[r] # <<>> /\ tExch[r][Len(tExch[r])] = "rejectedJson") =>
      (tpc[r] = "done" /\ ~Ok(tResp[r].status) /\ Len(tUp[r]) < Len(tExch[r]))

\* C10: at most one credentials exchange is in flight at any time.
C10_SingleExchangeInFlight ==
  Cardinality({r \in TileReqs : tpc[r] \in {"token1", "token2"}}) <= 1

\* request r calls getToken() in this step and is served from the cache
ServedFromCache(r) == tpc[r] = "idle" /\ tpc'[r] = "tile1"

\* C22: an exchange that returns lifetime L seconds and completes at time t
\* stores the expiry t + (L - 300) seconds; with L <= 300 the token is stale as
\* soon as it is stored; a stale token stays stale as long as the cache is not
\* written, and a getToken() call is served from the cache only when
\* now < tokenExpiry, so a token with L <= 300 is never served and every call
\* exchanges anew.
C22_ExpiryMargin ==
  [][/\ \A r \in TileReqs, life \in Lifetimes :
          (tpc[r] \in {"token1", "token2"} /\ TokenDone(r, "ok", life)) =>
            /\ tokenExpiry' = now + (life - 300) * 1000
            /\ cachedToken' = tTok'[r] /\ cachedToken' \notin {Null, Undefined}
            /\ life <= 300 => tokenExpiry' <= now
     /\ (tokenExpiry' = tokenExpiry /\ tokenExpiry # NaN /\ tokenExpiry <= now) =>
          tokenExpiry' <= now'
     /\ \A r \in TileReqs :
          /\ ServedFromCache(r) => (tokenExpiry # NaN /\ now < tokenExpiry)
          /\ (tpc[r] = "idle" /\ tpc'[r] # "idle" /\ tokenExpiry # NaN
                /\ tokenExpiry <= now) => tpc'[r] = "token1"]_vars

\* a request was answered with a tile after an exchange that granted exactly
\* 300 seconds; the token it stored is in the cache, stale, and another request
\* is exchanging credentials
C22_Witness ==
  \E r, q \in TileReqs :
    /\ r # q
    /\ tpc[r] = "done" /\ tExch[r] = <<"ok">> /\ tResp[r].status = 200
    /\ cachedToken = "tok" \o ToString(r) \o "a"
    /\ tokenExpiry = now
    /\ tpc[q] = "token1"

\* tile fetches and credentials exchanges request r has issued so far
TileFetches(r) == Len(tUp[r]) + (IF tpc[r] \in {"tile1", "tile2"} THEN 1 ELSE 0)
Exchanges(r) == Len(tExch[r]) + (IF tpc[r] \in {"token1", "token2"} THEN 1 ELSE 0)

\* C11: a request issues at most two tile fetches and at most two credentials
\* exchanges; it issues a second tile fetch only when the first upstream
\* response had status 401; once the second response is there the request is
\* answered, whatever that response is.
C11_BoundedRetry ==
  \A r \in TileReqs :
    /\ TileFetches(r) <= 2
    /\ Exchanges(r) <= 2
    /\ TileFetches(r) = 2 => tUp[r][1].status = 401
    /\ Len(tUp[r]) = 2 => tpc[r] = "done"

\* a request that exchanged credentials twice and fetched twice, the retry
\* being answered 401 as well, is done with that status
C11_Witness ==
  \E r \in TileReqs :
    /\ tpc[r] = "done" /\ Len(tExch[r]) = 2 /\ Len(tUp[r]) = 2
    /\ tUp[r][1].status = 401 /\ tUp[r][2].status = 401
    /\ tResp[r].status = 401

\* the first tile fetch of request r is answered in this step with a
\* non-success status other than 401
FirstFailsNot401(r) ==
  /\ tpc[r] = "tile1" /\ Len(tUp'[r]) = 1 /\ Len(tUp[r]) = 0
  /\ tUp'[r][1].status # 0
  /\ ~Ok(tUp'[r][1].status) /\ tUp'[r][1].status # 401

\* C12: when the first upstream tile response has a non-success status other
\* than 401, the request is answered with that status and the generic failure
\* body, no retry is made, and the cached token and its expiry stay as they
\* are.
C12_Non401Failure ==
  [][\A r \in TileReqs :
       FirstFailsNot401(r) =>
         /\ tpc'[r] = "done"
         /\ tResp'[r].status = tUp'[r][1].status
         /\ tResp'[r].body = FailBody
         /\ TileFetches(r)' = 1 /\ Exchanges(r)' = Exchanges(r)
         /\ cachedToken' = cachedToken /\ tokenExpiry' = tokenExpiry]_vars

\* a request that used the cached token was answered 503 after one fetch
\* answered 503, and the cache still holds that token, unexpired
C12_Witness ==
  \E r \in TileReqs :
    /\ tpc[r] = "done" /\ tFresh[r] /\ tExch[r] = <<>>
    /\ Len(tUp[r]) = 1 /\ tUp[r][1].status = 503
    /\ tResp[r].status = 503 /\ tResp[r].body = FailBody
    /\ Truthy(cachedToken) /\ Lt(now, tokenExpiry)

\* C13: a response carries Cache-Control 'public, max-age=86400' if and only
\* if it is a success response, after the first fetch and after the retry.
C13_CacheControlIffSuccess ==
  \A r \in TileReqs :
    tpc[r] = "done" => (tResp[r].cacheControl = CACHE_24H <=> Ok(tResp[r].status))

\* C29 as stated: when the first tile fetch of a request is answered 401, the
\* cached token is cleared only if it is still the token the request sent; a
\* token another request has stored since is left in the cache with its
\* expiry.
C29_LateUnauthorizedKeepsNewerToken ==
  [][\A r \in TileReqs : tpc[r] = "tile1" =>
       \A o \in TileOutcomes :
         (/\ o.status = 401 /\ Tile1Done(r, o)
          /\ Truthy(cachedToken) /\ cachedToken # tTok[r]) =>
           /\ cachedToken' = cachedToken
           /\ tokenExpiry' = tokenExpiry]_vars

\* the tokens the token endpoint hands out, and the expiry times getToken()
\* computes from a granted lifetime
IssuedTokens == {"tok" \o ToString(r) \o s : r \in TileReqs, s \in {"a", "b"}}
GrantedExpiries ==
  {k * TickMs + (life - TOKEN_MARGIN_S) * 1000 : k \in 0..MaxTicks, life \in Lifetimes}

\* C30 as stated: in every reachable state the cached token and its expiry
\* are either null and 0, or a token the token endpoint handed out and an
\* expiry computed from a granted lifetime; no exchange leaves a value that
\* is no token, or an expiry that is no time, in the cache.
C30_TokenStateConsistent ==
  \/ cachedToken = Null /\ tokenExpiry = 0
  \/ /\ cachedToken \in IssuedTokens
     /\ tokenExpiry # NaN
     /\ tokenExpiry \in GrantedExpiries

----------------------------------------------------------------------------
(* Claims about the POI cache and proxy *)

\* the five configured categories
ConfiguredCategories ==
  {"restauranger", "kafeer", "parker", "laddstationer", "busshallplatser"}

\* request r starts in this step
PoiStarts(r) == ppc[r] = "idle" /\ ppc'[r] # "idle"

\* C3: a request with a configured category and a bbox is served from the POI
\* cache, with the cached items and without an Overpass call, if and only if
\* the cache holds an entry for its key with now - fetchedAt < TTL (5 minutes);
\* otherwise, no entry or TTL elapsed, it makes a fresh Overpass call.
C3_PoiCacheHitAndExpiry ==
  [][\A r \in PoiReqs :
       (PoiStarts(r) /\ pReq'[r].category \in ConfiguredCategories
          /\ pReq'[r].bbox # Undefined) =>
         LET k == pReq'[r].category \o ":" \o pReq'[r].bbox IN
         IF k \in DOMAIN poiCache /\ now - poiCache[k].time < 300000
           THEN /\ ppc'[r] = "done"
                /\ pResp'[r].status = 200 /\ pResp'[r].data = poiCache[k].data
                /\ pCalls'[r] = pCalls[r]
                /\ poiCache' = poiCache
           ELSE /\ ppc'[r] = "overpass"
                /\ pCalls'[r] = pCalls[r] + 1]_vars

\* the second of two requests with the same key was served from the cache one
\* clock step after the first one stored its answer
C3_Witness ==
  \E r, q \in PoiReqs :
    /\ r # q /\ ppc[r] = "done" /\ ppc[q] = "done" /\ pReq[r] = pReq[q]
    /\ pCalls[r] = 1 /\ pCalls[q] = 0
    /\ pResp[r].status = 200 /\ pResp[q].status = 200
    /\ pResp[q].data = pResp[r].data /\ pResp[q].data # <<>>
    /\ LET k == CacheKey(pReq[r].category, pReq[r].bbox) IN
         k \in DOMAIN poiCache /\ now > poiCache[k].time

\* C4: a request whose category is not one of the five configured categories
\* is answered 400 with the error that lists the five names, and a request with
\* a configured category and no bbox is answered 400; neither makes an Overpass
\* call nor changes the POI cache.
C4_PoiArgumentValidation ==
  [][\A r \in PoiReqs :
       PoiStarts(r) =>
         /\ pReq'[r].category \notin ConfiguredCategories =>
              /\ ppc'[r] = "done" /\ pResp'[r].status = 400
              /\ pResp'[r].error =
                   "Unknown category. Valid: restauranger, kafeer, parker, laddstationer, busshallplatser"
              /\ pCalls'[r] = 0 /\ poiCache' = poiCache
         /\ (pReq'[r].category \in ConfiguredCategories /\ pReq'[r].bbox = Undefined) =>
              /\ ppc'[r] = "done" /\ pResp'[r].status = 400
              /\ pCalls'[r] = 0 /\ poiCache' = poiCache]_vars

\* C14: when the Overpass API answers a valid, uncached request with a
\* non-success status the request is answered 502, and when the fetch or the
\* parsing throws it is answered 500; in both cases the POI cache is left as it
\* was: no entry inserted, refreshed or removed.
C14_PoiUpstreamFailure ==
  [][\A r \in PoiReqs, o \in OverpassOutcomes :
       (PoiDone(r, o) /\ o.kind # "ok") =>
         /\ ppc'[r] = "done"
         /\ pResp'[r].status = (IF o.kind = "status" THEN 502 ELSE 500)
         /\ pResp'[r].data = <<>>
         /\ poiCache' = poiCache]_vars

\* a request was answered 502 after the entry of its key had gone stale, and
\* the stale entry, stored by an earlier request, is still in the cache
C14_Witness ==
  \E r, q \in PoiReqs :
    /\ r # q /\ ppc[r] = "done" /\ ppc[q] = "done" /\ pReq[r] = pReq[q]
    /\ pResp[r].status = 200 /\ pCalls[r] = 1
    /\ pResp[q].status = 502 /\ pCalls[q] = 1
    /\ LET k == CacheKey(pReq[r].category, pReq[r].bbox) IN
         /\ k \in DOMAIN poiCache
         /\ poiCache[k].data = pResp[r].data
         /\ now - poiCache[k].time >= POI_CACHE_TTL

\* request r inserts an entry in this step: its Overpass call is answered
\* with a body
PoiInserts(r) == ppc[r] = "overpass" /\ ppc'[r] = "done" /\ pResp'[r].status = 200

\* the key of request r, and the keys of the cache right after r's insertion
KeyOf(r) == pReq[r].category \o ":" \o pReq[r].bbox
KeysAfterInsert(r) == DOMAIN poiCache \cup {KeyOf(r)}

\* C15: after a request inserts an entry, if the cache then holds more than
\* 200 entries, every entry older than the TTL is removed, so no remaining
\* entry is older than the TTL; if it holds 200 entries or fewer, none is
\* removed; an entry that is not older than the TTL is never removed, the entry
\* just inserted among them, and the entries that stay are not changed.
C15_EvictionSweep ==
  [][\A r \in PoiReqs :
       PoiInserts(r) =>
         /\ DOMAIN poiCache' \subseteq KeysAfterInsert(r)
         /\ KeyOf(r) \in DOMAIN poiCache'
         /\ poiCache'[KeyOf(r)] = [time |-> now, data |-> pResp'[r].data]
         /\ \A k \in DOMAIN poiCache' \ {KeyOf(r)} : poiCache'[k] = poiCache[k]
         /\ \A k \in DOMAIN poiCache \ DOMAIN poiCache' : now - poiCache[k].time > 300000
         /\ IF Cardinality(KeysAfterInsert(r)) > 200
              THEN \A k \in DOMAIN poiCache' : now - poiCache'[k].time <= 300000
              ELSE DOMAIN poiCache' = KeysAfterInsert(r)]_vars

\* a sweep has removed the old entries: the first prefilled key is gone, the
\* younger prefilled entries and the entry of a request just answered are there
C15_Witness ==
  /\ PrefillKey(1) \notin DOMAIN poiCache
  /\ PrefillKey(PrefillSize) \in DOMAIN poiCache
  /\ Cardinality(DOMAIN poiCache) > 100
  /\ \E r \in PoiReqs :
       /\ ppc[r] = "done" /\ pResp[r].status = 200
       /\ KeyOf(r) \in DOMAIN poiCache /\ poiCache[KeyOf(r)].time = now

\* C16: the cache is not bounded by 200 entries: when every entry is live
\* (younger than the TTL) and a request inserts an entry under a new key, the
\* cache has one entry more, however many it had, all of them live.
C16_CacheNotBounded ==
  [][\A r \in PoiReqs :
       (PoiInserts(r) /\ KeyOf(r) \notin DOMAIN poiCache
          /\ \A k \in DOMAIN poiCache : now - poiCache[k].time < 300000) =>
         /\ Cardinality(DOMAIN poiCache') = Cardinality(DOMAIN poiCache) + 1
         /\ \A k \in DOMAIN poiCache' : now - poiCache'[k].time < 300000]_vars

\* more than 200 entries, all live
C16_Witness ==
  /\ Cardinality(DOMAIN poiCache) > 200
  /\ \A k \in DOMAIN poiCache : now - poiCache[k].time < 300000
  /\ \E r \in PoiReqs : ppc[r] = "done" /\ KeyOf(r) \in DOMAIN poiCache

----------------------------------------------------------------------------
(* Claims about the chat orchestrator *)

\* the geocoder found at least one match for place i
Matched(i) == cGeo[i].kind = "matches" /\ Len(cGeo[i].matches) > 0

\* the lookup of place i threw, failed or found nothing
LookupFailed(i) ==
  \/ cGeo[i].kind \in {"throws", "error"}
  \/ cGeo[i].kind = "matches" /\ Len(cGeo[i].matches) = 0

\* place i of the response has the coordinates of the geocoder's first match
HasGeocoderCoordinates(i) ==
  /\ cResp.places[i].lat = ParseFloat(cGeo[i].matches[1].lat)
  /\ cResp.places[i].lon = ParseFloat(cGeo[i].matches[1].lon)

\* C7: in the response of a chat request, every place extracted from the model
\* reply for which the geocoder returned at least one match has the latitude
\* and longitude of the geocoder's first match.
C7_ChatPlaceCorrection ==
  (cpc = "done" /\ cResp.status = 200) =>
    /\ Len(cResp.places) = Len(cPlaces)
    /\ \A i \in DOMAIN cGeo : Matched(i) => HasGeocoderCoordinates(i)

\* a place came back with the geocoder's coordinates, which are not the model's
C7_Witness ==
  /\ cpc = "done" /\ cResp.status = 200
  /\ \E i \in DOMAIN cGeo :
       /\ Matched(i) /\ Len(cGeo[i].matches) > 1
       /\ HasGeocoderCoordinates(i)
       /\ cResp.places[i].lat # cPlaces[i].lat /\ cResp.places[i].lon # cPlaces[i].lon

\* C8: once the lookups of a chat request have completed, the request is
\* answered 200; every place whose lookup threw, failed or found nothing is
\* returned exactly as the model gave it, and every other place is returned
\* with the geocoder's coordinates.
C8_ChatPlaceFallback ==
  (cpc = "done" /\ Len(cGeo) > 0) =>
    /\ cResp.status = 200
    /\ Len(cResp.places) = Len(cPlaces)
    /\ \A i \in DOMAIN cGeo :
         /\ LookupFailed(i) => cResp.places[i] = cPlaces[i]
         /\ Matched(i) => HasGeocoderCoordinates(i)

\* one lookup threw and its place kept the model's coordinates, while another
\* place of the same reply was corrected
C8_Witness ==
  /\ cpc = "done" /\ cResp.status = 200
  /\ \E i, j \in DOMAIN cGeo :
       /\ cGeo[i].kind = "throws" /\ cResp.places[i] = cPlaces[i]
       /\ Matched(j) /\ HasGeocoderCoordinates(j) /\ cResp.places[j] # cPlaces[j]

\* the elements of an Overpass body, and the values of an element's name tag
ElementsOf(body) == IF body.hasElements THEN body.elements ELSE <<>>
NameTags(el) ==
  IF el.hasTags THEN {el.tags[i][2] : i \in {j \in 1..Len(el.tags) : el.tags[j][1] = "name"}}
  ELSE {}

\* C27: when the Overpass request of a cache miss answers with a body, the
\* response holds one POI per element of the body, in the body's order, with
\* the element's id and coordinates; its name is the element's name tag, or
\* the empty string when the element has none, and its tags are the
\* element's, or empty when the element has none. The entry stored in the
\* cache under the request's key holds the sequence that is returned.
C27_PoiShape ==
  [][\A r \in PoiReqs : ppc[r] = "overpass" =>
       \A o \in OverpassOutcomes : (o.kind = "ok" /\ PoiDone(r, o)) =>
         LET els == ElementsOf(o.body)
             out == pResp'[r].data
             key == pReq[r].category \o ":" \o pReq[r].bbox
         IN /\ pResp'[r].status = 200
            /\ Len(out) = Len(els)
            /\ \A i \in 1..Len(els) :
                 /\ out[i].id = els[i].id
                 /\ out[i].lat = els[i].lat /\ out[i].lon = els[i].lon
                 /\ NameTags(els[i]) # {} => out[i].name \in NameTags(els[i])
                 /\ NameTags(els[i]) = {} => out[i].name = ""
                 /\ els[i].hasTags => out[i].tags = els[i].tags
                 /\ ~els[i].hasTags => out[i].tags = <<>>
            /\ key \in DOMAIN poiCache'
            /\ poiCache'[key].data = out
            /\ poiCache'[key].time = now]_vars

\* a miss has answered two POIs, the first named by its element's name tag,
\* the second made from an element without tags, and the cache holds them
C27_Witness ==
  \E r \in PoiReqs :
    /\ ppc[r] = "done" /\ pResp[r].status = 200 /\ pCalls[r] = 1
    /\ Len(pResp[r].data) = 2
    /\ pResp[r].data[1].name = "Fika"
    /\ pResp[r].data[2].name = "" /\ pResp[r].data[2].tags = <<>>
    /\ CacheKey(pReq[r].category, pReq[r].bbox) \in DOMAIN poiCache
    /\ poiCache[CacheKey(pReq[r].category, pReq[r].bbox)].data = pResp[r].data

\* C28 as stated: when the chat-completion endpoint answers with a
\* non-success status, the request is answered 502 and no geocoder lookup is
\* made.
C28_UpstreamFailureIs502 ==
  [][cpc = "model" =>
       \A kind \in {"status", "statusNoText"}, reply \in ReplyInputs :
         ChatModelDone(kind, reply) =>
           /\ cpc' = "done"
           /\ cResp'.status = 502
           /\ cCalls'.geocoder = cCalls.geocoder]_vars

\* C31 as stated: for a key (category, bbox), at most one Overpass query is
\* in flight at any time, also when requests for the key arrive before the
\* first one has stored its result.
C31_SingleQueryPerKey ==
  \A r, q \in PoiReqs :
    (r # q /\ ppc[r] = "overpass" /\ ppc[q] = "overpass") =>
      pReq[r].category \o ":" \o pReq[r].bbox # pReq[q].category \o ":" \o pReq[q].bbox

----------------------------------------------------------------------------
(* Claims about the statistics merge *)

\* the merge of request r was reached with a boundary body that has features
Merged(r) == spc[r] = "done" /\ sGeo[r].hasFeatures

\* the municipality-level features of the boundary body that request r merged
Municipalities(r) == SelectSeq(sGeo[r].features, IsMunicipality)

\* the name under which feature f is looked up
LookupName(f) == IF f.hasName THEN f.NAME_2 ELSE ""

\* the places in the mapping n2k of the names equal to name, and of the names
\* equal to it when letter case is ignored
ExactAt(n2k, name) == {j \in 1..Len(n2k) : n2k[j][1] = name}
FoldedAt(n2k, name) == {j \in 1..Len(n2k) : ToLowerCase(n2k[j][1]) = ToLowerCase(name)}
LastOf(S) == CHOOSE j \in S : \A k \in S : k <= j

\* the code the amended statement gives to a feature named name
ExpectedKod(n2k, name) ==
  IF ExactAt(n2k, name) # {} THEN n2k[LastOf(ExactAt(n2k, name))][2]
  ELSE IF FoldedAt(n2k, name) # {} THEN n2k[LastOf(FoldedAt(n2k, name))][2]
  ELSE Null

\* the value stored for a code, null when none is stored
ExpectedValue(k2v, kod) ==
  IF \E j \in 1..Len(k2v) : k2v[j][1] = kod
    THEN Some(k2v[CHOOSE j \in 1..Len(k2v) : k2v[j][1] = kod][2])
    ELSE None

\* feature i of the output of request r is feature i of the merged
\* municipalities, with its name and geometry
Carried(r, i) ==
  /\ sResp[r].features[i].NAME_2 = Municipalities(r)[i].NAME_2
  /\ sResp[r].features[i].hasName = Municipalities(r)[i].hasName
  /\ sResp[r].features[i].geometry = Municipalities(r)[i].geometry

SecondWithinTtls(r, q) ==
  /\ r # q
  /\ spc[r] = "done" /\ sResp[r].status = 200
  /\ \A p \in StatReqs \ {r, q} : spc[p] = "idle"
  /\ spc[q] = "idle" /\ spc'[q] # "idle"
  /\ now - scbCache.ts < SCB_TTL
  /\ now - geoCache.ts < GEO_TTL

\* C6: a second request that arrives within the 24-hour statistics TTL and the
\* 7-day boundary TTL of a successful first request is answered at once,
\* without any upstream call, with the first request's output, and leaves the
\* caches as they are.
C6_StatIdempotence ==
  [][\A r, q \in StatReqs : SecondWithinTtls(r, q) =>
       /\ spc'[q] = "done"
       /\ sCalls'[q] = 0
       /\ sResp'[q] = sResp[r]
       /\ scbCache' = scbCache /\ geoCache' = geoCache]_vars

\* the first request made its three upstream calls, the second one none, some
\* time after the caches were filled, and both have the same features
C6_Witness ==
  \E r, q \in StatReqs :
    /\ r # q
    /\ spc[r] = "done" /\ sResp[r].status = 200 /\ sCalls[r] = 3
    /\ spc[q] = "done" /\ sCalls[q] = 0
    /\ now > scbCache.ts /\ now > geoCache.ts
    /\ sResp[q] = sResp[r]
    /\ Len(sResp[q].features) > 0

\* an upstream call of request r ends in this step with a non-success status
\* or an exception
UpstreamFails(r) ==
  /\ spc'[r] # spc[r]
  /\ \/ spc[r] = "meta" /\ \E o \in MetaOutcomes : o.kind # "ok" /\ MetaDone(r, o)
     \/ spc[r] = "data" /\ \E o \in DataOutcomes : o.kind # "ok" /\ DataDone(r, o)
     \/ spc[r] = "gadm" /\ \E o \in GadmOutcomes : o.kind # "ok" /\ GadmDone(r, o)

\* C20: when an upstream call of a statistics request (metadata, data or
\* boundary source) returns a non-success status or throws, the request is
\* answered 500 and neither cache changes; the statistics cache is written
\* only when the data call succeeds, which is made only after the metadata
\* call succeeded, and the boundary cache only when the boundary call succeeds.
C20_StatUpstreamFailure ==
  [][/\ \A r \in StatReqs :
          UpstreamFails(r) =>
            /\ spc'[r] = "done" /\ sResp'[r].status = 500
            /\ scbCache' = scbCache /\ geoCache' = geoCache
     /\ scbCache' # scbCache =>
          \E r \in StatReqs, o \in DataOutcomes :
            o.kind = "ok" /\ spc[r] = "data" /\ sCalls[r] = 2 /\ DataDone(r, o)
     /\ geoCache' # geoCache =>
          \E r \in StatReqs, o \in GadmOutcomes :
            o.kind = "ok" /\ spc[r] = "gadm" /\ GadmDone(r, o)]_vars

\* a refresh of the statistics, due after 24 hours, failed with 500, and the
\* statistics cache still holds what the first request stored
C20_Witness ==
  \E r, q \in StatReqs :
    /\ r # q
    /\ spc[r] = "done" /\ sResp[r].status = 200 /\ sCalls[r] = 3
    /\ spc[q] = "done" /\ sResp[q].status = 500 /\ sCalls[q] >= 1
    /\ scbCache.has /\ scbCache.data = sScb[r] /\ scbCache.ts = 0
    /\ now - scbCache.ts >= SCB_TTL
    /\ geoCache.has /\ geoCache.data = sGeo[r]

\* C24: a feature whose name is exactly a name of the statistics mapping gets
\* the code of that name, also when another name of the mapping equals it
\* when letter case is ignored; a feature gets a code from the case-insensitive
\* mapping only when no name of the mapping is exactly its name.
C24_ExactMatchFirst ==
  \A r \in StatReqs : Merged(r) =>
    \A i \in 1..Len(Municipalities(r)) :
      LET name == LookupName(Municipalities(r)[i])
          n2k == sScb[r].nameToKod
          out == sResp[r].features[i]
      IN /\ \A j \in ExactAt(n2k, name) : out.kod = n2k[j][2]
         /\ \A j \in FoldedAt(n2k, name) \ ExactAt(n2k, name) :
              (out.kod = n2k[j][2] /\ out.kod # Null) =>
                \A e \in ExactAt(n2k, name) : n2k[e][2] = n2k[j][2]

\* a feature has the code of the name that is exactly its own, while the
\* case-insensitive mapping holds another code for it
C24_Witness ==
  \E r \in StatReqs :
    /\ Merged(r) /\ sResp[r].status = 200
    /\ \E i \in 1..Len(Municipalities(r)) :
         LET name == LookupName(Municipalities(r)[i])
             n2k == sScb[r].nameToKod
         IN /\ ExactAt(n2k, name) # {}
            /\ LastOf(FoldedAt(n2k, name)) \notin ExactAt(n2k, name)
            /\ n2k[LastOf(FoldedAt(n2k, name))][2] # sResp[r].features[i].kod
            /\ sResp[r].features[i].kod = n2k[LastOf(ExactAt(n2k, name))][2]

\* a boundary feature is of the municipality level; what an output feature
\* carries of the boundary feature it was made from
AtMunicipalityLevel(f) == f.ENGTYPE_2 = "Municipality"
BoundaryPart(out) == Feature(out.ENGTYPE_2, out.hasName, out.NAME_2, out.geometry)

\* C25: the features a request returns are exactly the boundary features of
\* the municipality level: one output feature per such input feature, in the
\* input's order; features of another level are not in the output, and a
\* municipality-level feature is in the output whether or not it got a code.
C25_MergeOutputShape ==
  \A r \in StatReqs : (Merged(r) /\ sResp[r].status = 200) =>
    LET level == SelectSeq(sGeo[r].features, AtMunicipalityLevel)
        out == sResp[r].features
    IN /\ Len(out) = Len(level)
       /\ \A i \in 1..Len(level) : BoundaryPart(out[i]) = level[i]

\* a merge of a boundary body holding a feature of another level, whose
\* output has a feature with a code and a feature without
C25_Witness ==
  \E r \in StatReqs :
    /\ Merged(r) /\ sResp[r].status = 200
    /\ \E i \in 1..Len(sGeo[r].features) : ~AtMunicipalityLevel(sGeo[r].features[i])
    /\ Len(sResp[r].features) = 3
    /\ \E i, j \in 1..Len(sResp[r].features) :
         sResp[r].features[i].kod = Null /\ sResp[r].features[j].kod # Null

\* the code is four characters, each a digit
FourDigits(kod) ==
  /\ Len(Chars(kod)) = 4
  /\ \A i \in 1..Len(Chars(kod)) : Chars(kod)[i] \in Digits

\* C26: a statistics refresh whose data request answers with rows, some of
\* them with a value that is no number, does not fail: it stores the mappings
\* at the current time. The stored name-to-code mapping holds only codes of
\* exactly four digits, and the stored code-to-value mapping holds an entry
\* for a code only when a row of that code has a value that parsed as a
\* number, the entry being that number.
C26_RefreshFiltering ==
  [][\A r \in StatReqs : spc[r] = "data" =>
       \A o \in DataOutcomes : (o.kind = "ok" /\ DataDone(r, o)) =>
         /\ scbCache'.has /\ scbCache'.ts = now
         /\ spc'[r] = "gadm" \/ (spc'[r] = "done" /\ geoCache.has)
         /\ \A j \in 1..Len(scbCache'.data.nameToKod) :
              FourDigits(scbCache'.data.nameToKod[j][2])
         /\ \A j \in 1..Len(scbCache'.data.kodToValue) :
              \E i \in 1..Len(o.rows) :
                /\ o.rows[i][1] = scbCache'.data.kodToValue[j][1]
                /\ ParseValue(o.rows[i][2]) # NaN
                /\ ParseValue(o.rows[i][2]) = scbCache'.data.kodToValue[j][2]
         /\ \A i \in 1..Len(o.rows) :
              (\A k \in 1..Len(o.rows) :
                 o.rows[k][1] = o.rows[i][1] => ParseValue(o.rows[k][2]) = NaN) =>
                ~ObjHas(scbCache'.data.kodToValue, o.rows[i][1])]_vars

\* a refresh has stored the mappings made from metadata with the regions
\* "Riket" (code 00) and "Lund" (code 12) and from rows with the value "..":
\* three names with four-digit codes, three values
C26_Witness ==
  /\ scbCache.has
  /\ scbCache.data.nameToKod = <<<<"malmo", "1280">>, <<"Lund", "1281">>, <<"Kiruna", "2584">>>>
  /\ scbCache.data.kodToValue = <<<<"1280", 785>>, <<"1299", 0>>, <<"1281", 812>>>>

\* the caches are empty or have reached their TTLs (24 hours, 7 days)
ScbDue == ~scbCache.has \/ now - scbCache.ts >= 24 * HOUR
GeoDue == ~geoCache.has \/ now - geoCache.ts >= 7 * 24 * HOUR

\* C23: a request starts to re-fetch the statistics exactly when, as it
\* arrives, the statistics cache is empty or at least 24 hours old, and it
\* contacts the boundary source only when, as it reaches that stage, the
\* boundary cache is empty or at least 7 days old; a step that writes one
\* cache leaves the data and the timestamp of the other as they were.
C23_IndependentRefresh ==
  [][/\ \A r \in StatReqs :
          /\ (spc[r] = "idle" /\ spc'[r] # "idle") =>
               /\ spc'[r] = "meta" <=> ScbDue
               /\ ~ScbDue => (spc'[r] = "gadm" <=> GeoDue)
          /\ (spc[r] # "gadm" /\ spc'[r] = "gadm") => GeoDue
          /\ (spc[r] # "meta" /\ spc'[r] = "meta") => spc[r] = "idle"
          /\ (spc[r] # "data" /\ spc'[r] = "data") => spc[r] = "meta"
     /\ scbCache' # scbCache => geoCache' = geoCache
     /\ geoCache' # geoCache => scbCache' = scbCache]_vars

\* a request refreshed the statistics, 24 hours after the first request had
\* filled both caches, and took the boundaries from the cache
C23_Witness ==
  \E r, q \in StatReqs :
    /\ r # q
    /\ spc[r] = "done" /\ sResp[r].status = 200 /\ sCalls[r] = 3
    /\ spc[q] = "done" /\ sResp[q].status = 200 /\ sCalls[q] = 2
    /\ geoCache.has /\ geoCache.ts = 0 /\ geoCache.data = sGeo[r]
    /\ scbCache.has /\ scbCache.ts >= 24 * HOUR /\ scbCache.data = sScb[q]
    /\ sGeo[q] = sGeo[r]

\* the statistics refresh of request r fails in this step: the metadata or
\* the data request is answered with a non-success status, with nothing that
\* parses, or with metadata that has no Region variable
StatRefreshFails(r) ==
  /\ spc[r] \in {"meta", "data"} /\ spc'[r] = "done"
  /\ \/ \E o \in MetaOutcomes : (o.kind # "ok" \/ ~o.meta.hasRegion) /\ MetaDone(r, o)
     \/ \E o \in DataOutcomes : o.kind # "ok" /\ DataDone(r, o)

\* the boundary fetch of request r fails in this step
BoundaryFetchFails(r) ==
  /\ spc[r] = "gadm" /\ spc'[r] = "done"
  /\ \E o \in GadmOutcomes : o.kind # "ok" /\ GadmDone(r, o)

\* C32: a request contacts the boundary source only when it has the
\* statistics, from the cache or from its own completed refresh. When its
\* statistics refresh fails the boundary cache is not read and not written.
\* When its boundary fetch fails the statistics cache keeps what it holds, and
\* a request that arrives while the cached statistics are younger than 24
\* hours does not contact the statistics API: it contacts the boundary
\* source, or nothing when the boundary cache is usable.
C32_RefreshOrder ==
  [][\A r \in StatReqs : spc'[r] # spc[r] =>
       /\ spc'[r] = "gadm" =>
            \/ /\ spc[r] = "idle"
               /\ scbCache.has /\ now - scbCache.ts < 24 * HOUR
               /\ sScb'[r] = scbCache.data
            \/ /\ spc[r] = "data"
               /\ scbCache'.has /\ scbCache'.ts = now
               /\ sScb'[r] = scbCache'.data
       /\ StatRefreshFails(r) =>
            /\ geoCache' = geoCache /\ scbCache' = scbCache
            /\ sGeo[r] = NoGeo /\ sGeo'[r] = NoGeo
            /\ sCalls'[r] = sCalls[r]
            /\ sResp'[r].status = 500
       /\ BoundaryFetchFails(r) =>
            /\ scbCache' = scbCache /\ scbCache.has
            /\ geoCache' = geoCache
            /\ sResp'[r].status = 500
       /\ (spc[r] = "idle" /\ scbCache.has /\ now - scbCache.ts < 24 * HOUR) =>
            /\ spc'[r] # "meta"
            /\ scbCache' = scbCache
            /\ \/ spc'[r] = "gadm" /\ sCalls'[r] = sCalls[r] + 1
               \/ /\ spc'[r] = "done" /\ sCalls'[r] = sCalls[r]
                  /\ geoCache.has /\ now - geoCache.ts < 7 * 24 * HOUR]_vars

\* one request refreshed the statistics and failed at the boundary source;
\* the statistics it stored are in the cache, and another request, within 24
\* hours of the refresh, was answered after contacting only the boundary
\* source
C32_Witness ==
  \E r, q \in StatReqs :
    /\ r # q
    /\ spc[r] = "done" /\ sResp[r].status = 500 /\ sCalls[r] = 3
    /\ spc[q] = "done" /\ sResp[q].status = 200 /\ sCalls[q] = 1
    /\ scbCache.has /\ scbCache.data = sScb[q]
    /\ now - scbCache.ts < 24 * HOUR
    /\ geoCache.has /\ geoCache.data = sGeo[q]

\* C33: a request that performs no refresh leaves the statistics cache and
\* the boundary cache exactly as they were, each cached feature with the
\* properties it had; and after any merge the boundary cache holds a body as
\* the boundary source sent it: the code and the value are attached to copies.
C33_MergeKeepsCaches ==
  [][/\ \A r \in StatReqs :
          (spc[r] = "idle" /\ spc'[r] = "done") =>
            /\ scbCache' = scbCache
            /\ geoCache' = geoCache
     /\ geoCache'.has => geoCache'.data \in {o.geo : o \in GadmOutcomes}
     /\ geoCache'.data # geoCache.data => geoCache'.ts = now]_vars

\* a request was answered from both caches with features that carry a code,
\* and the cached boundary feature it was made from carries none
C33_Witness ==
  \E r \in StatReqs :
    /\ spc[r] = "done" /\ sResp[r].status = 200 /\ sCalls[r] = 0
    /\ geoCache.has /\ geoCache.data = sGeo[r]
    /\ scbCache.has /\ scbCache.data = sScb[r]
    /\ sResp[r].features[1].kod # Null
    /\ geoCache.data.features[1] =
         Feature("Municipality", TRUE, sResp[r].features[1].NAME_2,
                 sResp[r].features[1].geometry)

\* the names in the list un
NamesIn(un) == {un[i] : i \in 1..Len(un)}

\* C34: in every merged feature, a value that is not null comes with a code
\* that is not null and is the value the statistics hold for that code; a
\* feature whose code has a stored value has that value, zero included; a
\* feature whose code has no stored value has the code and value null; and
\* the code is null if and only if the feature's name is in the unmatched
\* list, which has one name per feature without a code.
C34_CodeValueConsistency ==
  \A r \in StatReqs : (Merged(r) /\ sResp[r].status = 200) =>
    LET unmatched == Unmatched(sGeo[r].features, sScb[r])
        names == NamesIn(unmatched)
    IN /\ \A i \in 1..Len(sResp[r].features) :
            LET out == sResp[r].features[i]
                k2v == sScb[r].kodToValue
                At == {j \in 1..Len(k2v) : k2v[j][1] = out.kod}
            IN /\ out.sysselsattning # None =>
                    /\ out.kod # Null
                    /\ \E j \in At : out.sysselsattning = <<k2v[j][2]>>
               /\ (out.kod # Null /\ At # {}) => out.sysselsattning # None
               /\ (out.kod # Null /\ At = {}) => out.sysselsattning = None
               /\ out.kod = Null <=> (IF out.hasName THEN out.NAME_2 ELSE "") \in names
       /\ Len(unmatched) =
            Cardinality({i \in 1..Len(sResp[r].features) : sResp[r].features[i].kod = Null})

\* a merge whose output has a feature with code and value, a feature with a
\* code and no stored value, and a feature without code whose name is in the
\* unmatched list
C34_Witness ==
  \E r \in StatReqs :
    /\ Merged(r) /\ sResp[r].status = 200
    /\ \E i, j, k \in 1..Len(sResp[r].features) :
         /\ sResp[r].features[i].kod # Null /\ sResp[r].features[i].sysselsattning # None
         /\ sResp[r].features[j].kod # Null /\ sResp[r].features[j].sysselsattning = None
         /\ sResp[r].features[k].kod = Null /\ sResp[r].features[k].sysselsattning = None
         /\ (IF sResp[r].features[k].hasName THEN sResp[r].features[k].NAME_2 ELSE "")
              \in NamesIn(Unmatched(sGeo[r].features, sScb[r]))

----------------------------------------------------------------------------
(* Further claims about the chat orchestrator *)

\* no network call has been made
NoChatCalls == cCalls = [model |-> 0, geocoder |-> 0]

\* C17: a request without a message is answered 400, and a request with a
\* message while the API credential is absent or the placeholder is answered
\* 500; both are answered at once, before any call to the model or the
\* geocoder.
C17_ChatInputChecks ==
  [][\A message \in MessageInputs, apiKey \in ApiKeyInputs :
       ChatStart(message, apiKey) =>
         /\ message \in {Undefined, ""} =>
              (cpc' = "done" /\ cResp'.status = 400 /\ NoChatCalls')
         /\ (message \notin {Undefined, ""}
               /\ (apiKey = Undefined \/ apiKey = "your-openrouter-api-key-here")) =>
              (cpc' = "done" /\ cResp'.status = 500 /\ NoChatCalls')]_vars

\* a request with a message was refused for its credential, with no call made
C17_Witness ==
  /\ cpc = "done" /\ cResp.status = 500
  /\ cResp.error = "OPENROUTER_API_KEY not configured"
  /\ NoChatCalls

\* the reply has a places block, and what the block holds is not JSON
BlockDoesNotParse(reply) ==
  \E i, j \in 1..Len(reply) :
    /\ i + 2 = j /\ reply[i] = FENCE_OPEN /\ reply[j] = FENCE_CLOSE
    /\ ~JsonParse(reply[i + 1]).ok
    /\ \A k \in 1..Len(reply) : k \notin {i, j} => reply[k] \notin {FENCE_OPEN, FENCE_CLOSE}

\* the reply without the lines of its only places block, which leaves an
\* empty line between what was before and after it
WithoutBlock(reply) ==
  LET i == CHOOSE x \in 1..Len(reply) : reply[x] = FENCE_OPEN IN
  SubSeq(reply, 1, i - 1) \o <<"">> \o SubSeq(reply, i + 3, Len(reply))

\* C18: when the model reply has a places block whose content is not valid
\* JSON, the request is answered 200 with an empty place list and with the
\* reply without its places block as text, and no geocoder call is made.
C18_PlacesParseFailure ==
  [][\A reply \in ReplyInputs :
       (ChatModelDone("ok", reply) /\ BlockDoesNotParse(reply)) =>
         /\ cpc' = "done" /\ cResp'.status = 200
         /\ cResp'.places = <<>>
         /\ cResp'.text = TrimLines(WithoutBlock(reply))
         /\ cCalls'.geocoder = 0 /\ cCalls'.model = 1]_vars

\* the answer to the reply whose block is cut short: the text around the
\* block, no places, no geocoder call
C18_Witness ==
  /\ cpc = "done" /\ cResp.status = 200
  /\ cResp.text = <<"Se har:", "", "Slut.">>
  /\ cResp.places = <<>>
  /\ cCalls = [model |-> 1, geocoder |-> 0]

\* C19: the places of the response are as many as the places extracted from
\* the model reply, in the same order, each with its name and description, in
\* whatever order the concurrent lookups complete or fail.
C19_PlaceOrdering ==
  (cpc = "done" /\ Len(cOrder) > 0) =>
    /\ cResp.status = 200
    /\ Len(cResp.places) = Len(cPlaces)
    /\ \A i \in 1..Len(cPlaces) :
         /\ cResp.places[i].name = cPlaces[i].name
         /\ cResp.places[i].description = cPlaces[i].description

\* three lookups completed last place first, the first of them failing, and
\* the response has the three places in the order of the reply
C19_Witness ==
  /\ cpc = "done" /\ cResp.status = 200
  /\ cOrder = <<3, 2, 1>>
  /\ cGeo[3].kind = "throws" /\ cGeo[1].kind = "matches" /\ Len(cGeo[1].matches) > 0
  /\ cPlaces = <<Visby, Kiruna, Torso>>
  /\ cResp.places[1].name = "Visby ringmur" /\ cResp.places[1].lat # Visby.lat
  /\ cResp.places[3] = Torso

----------------------------------------------------------------------------
(* Claims about the CORS middleware *)

\* no route handler has run for request k
NoHandlerRan(k) ==
  /\ tpc[k] = "idle" /\ ppc[k] = "idle" /\ spc[k] = "idle"
  /\ pCalls[k] = 0 /\ sCalls[k] = 0 /\ tExch[k] = <<>> /\ tUp[k] = <<>>

\* C21: every response of the server, the error responses too, carries
\* Access-Control-Allow-Origin: *; a request with method OPTIONS is answered
\* 204 by the middleware, no route handler runs for it, and its arrival changes
\* neither the token, nor a cache, nor the state of any handler.
C21_CorsAndPreflight ==
  [][\A k \in CorsReqs :
       /\ Answered(k)' => mw'[k].acao = "*"
       /\ mw'[k].method = "OPTIONS" =>
            /\ mw'[k].stage = "answered" /\ mw'[k].status = 204
            /\ NoHandlerRan(k)'
       /\ (mw[k].stage = "none" /\ mw'[k].method = "OPTIONS") =>
            UNCHANGED <<now, tileVars, poiVars, chatVars, statVars>>]_vars

\* a tile request was answered 503, with the header, after it had fetched a
\* token; then an OPTIONS request for the same route was answered 204, with
\* the header, and the token is still cached
C21_Witness ==
  /\ mw[1].route = WMTS /\ mw[1].method = "GET" /\ mw[1].acao = "*"
  /\ tpc[1] = "done" /\ tResp[1].status = 503 /\ tExch[1] = <<"ok">>
  /\ mw[2].route = WMTS /\ mw[2].method = "OPTIONS"
  /\ mw[2].stage = "answered" /\ mw[2].status = 204 /\ mw[2].acao = "*"
  /\ NoHandlerRan(2)
  /\ cachedToken = "tok1a"

\* the responses sent for request k: by the middleware or the fallback, and
\* by the handler of its route
HandlerResponses(k) ==
  IF mw[k].stage # "passed" \/ ~RouteMatches(mw[k].route, mw[k].method) THEN 0
  ELSE IF \/ mw[k].route = WMTS /\ tResp[k] # NoResp
          \/ mw[k].route = POIS /\ pResp[k] # NoPoiResp
          \/ mw[k].route = CHAT /\ cResp # NoChatResp
          \/ mw[k].route = STAT /\ sResp[k] # NoStatResp
    THEN 1
    ELSE 0
Responses(k) == mw[k].sent + HandlerResponses(k)

\* how far the handlers are: every step of a handler moves it forward
TileRank(pc) ==
  CASE pc = "idle" -> 0 [] pc = "token1" -> 1 [] pc = "tile1" -> 2
    [] pc = "token2" -> 3 [] pc = "tile2" -> 4 [] pc = "done" -> 5
PoiRank(pc) == CASE pc = "idle" -> 0 [] pc = "overpass" -> 1 [] pc = "done" -> 2
StatRank(pc) ==
  CASE pc = "idle" -> 0 [] pc = "meta" -> 1 [] pc = "data" -> 2
    [] pc = "gadm" -> 3 [] pc = "done" -> 4
ChatRank(pc, geo) ==
  CASE pc = "idle" -> 0 [] pc = "model" -> 1
    [] pc = "geocode" -> 2 + Cardinality({i \in DOMAIN geo : geo[i] # Pending})
    [] pc = "done" -> 3 + MaxPlaces

\* some step of request k is possible
CanStep(k) ==
  ENABLED (\/ CorsTile(k) \/ CorsPoi(k) \/ CorsChat(k) \/ CorsStat(k)
           \/ \E found \in BOOLEAN : Fallback(k, found))

\* C35: on each of the four routes, as long as every upstream call is
\* answered or throws, a request gets exactly one response on every path:
\* never more than one response is sent for a request; a request that has
\* not been answered can take a step, every step moves its handler
\* forward, and the handler ends with the one step that writes its response,
\* which no later step writes again.
C35_ExactlyOneResponse ==
  /\ [](\A k \in CorsReqs :
          /\ Responses(k) <= 1
          /\ Answered(k) <=> Responses(k) = 1
          /\ (mw[k].stage = "passed" /\ ~Answered(k)) => CanStep(k))
  /\ [][\A k \in CorsReqs :
          /\ tpc'[k] # tpc[k] => TileRank(tpc'[k]) > TileRank(tpc[k])
          /\ ppc'[k] # ppc[k] => PoiRank(ppc'[k]) > PoiRank(ppc[k])
          /\ spc'[k] # spc[k] => StatRank(spc'[k]) > StatRank(spc[k])
          /\ <<cpc, cGeo>>' # <<cpc, cGeo>> => ChatRank(cpc', cGeo') > ChatRank(cpc, cGeo)
          /\ tResp'[k] # tResp[k] => (tResp[k] = NoResp /\ tpc[k] # "done" /\ tpc'[k] = "done")
          /\ pResp'[k] # pResp[k] => (pResp[k] = NoPoiResp /\ ppc[k] # "done" /\ ppc'[k] = "done")
          /\ sResp'[k] # sResp[k] => (sResp[k] = NoStatResp /\ spc[k] # "done" /\ spc'[k] = "done")
          /\ cResp' # cResp => (cResp = NoChatResp /\ cpc # "done" /\ cpc' = "done")
          /\ (tpc[k] # "done" /\ tpc'[k] = "done") => tResp'[k] # NoResp
          /\ (ppc[k] # "done" /\ ppc'[k] = "done") => pResp'[k] # NoPoiResp
          /\ (spc[k] # "done" /\ spc'[k] = "done") => sResp'[k] # NoStatResp
          /\ (cpc # "done" /\ cpc' = "done") => cResp' # NoChatResp
          /\ mw'[k].sent # mw[k].sent =>
               (mw[k].sent = 0 /\ ~Answered(k) /\ mw'[k].stage = "answered")]_vars

\* a tile request was answered after a 401, a new exchange and a retry, and
\* a chat request after its lookups: one response each
C35_Witness ==
  /\ mw[1].route = WMTS /\ tpc[1] = "done" /\ Len(tUp[1]) = 2 /\ Responses(1) = 1
  /\ mw[2].route = CHAT /\ cpc = "done" /\ cResp.status = 200
  /\ cCalls.geocoder > 0 /\ Responses(2) = 1

----------------------------------------------------------------------------
(* Claims about the POI layer of the map page *)

\* no fetchPois call is in flight
NoneInFlight == \A i \in DOMAIN fetches : fetches[i].state # "flight"

\* C36 as stated: once every fetchPois call has completed, the POI layer
\* shows the answer to the call issued last (its category and extent) when a
\* category is active, and nothing when none is; an answer that arrives late
\* for an earlier extent does not replace the answer to a newer call.
C36_LatestFetchShown ==
  (/\ fetches # <<>> /\ NoneInFlight
   /\ fetches[Len(fetches)].state = "ok") =>
    IF activeCategoryRef = Null
      THEN poiSource = Cleared
      ELSE poiSource = Shown(fetches[Len(fetches)].category, fetches[Len(fetches)].extent)

\* C37 as stated: whenever no fetchPois call is in flight, loadingPois is
\* false, also after the category was deactivated or switched during a call.
C37_LoadingClears == NoneInFlight => ~loadingPois

====
